---- MODULE Spec2Model ----
(***************************************************************************)
(* Verification model of ArchCrafter2: the palette cache and the GTK theme *)
(* metadata cache (backend/wallpapers.py, backend/gtk_themes.py, main.py), *)
(* the JSON settings store (backend/settings.py) and the wallpaper         *)
(* settings built on it.                                                   *)
(*                                                                         *)
(* Conventions.  A Python dict is a function whose DOMAIN is its key set.  *)
(* A colour "#rrggbb" produced by the code is the tuple <<r, g, b>> of its *)
(* channels (the hex formatting is injective).  A colour STRING read from  *)
(* the settings is a sequence of one-character strings, so that parsing it *)
(* is computed.  sha1 of a key string is the tuple of the fields that are  *)
(* formatted into the string (sha1 collisions are not modelled).           *)
(***************************************************************************)
EXTENDS Integers, Sequences, FiniteSets, TLC

VARIABLES
    \* ---- wallpaper image files and the palette cache
    files,                      \* resolved image path -> [exists, mtime, size, img]
    _palette_cache,             \* in-memory tier: key -> palette
    _palette_disk_cache,        \* in-memory copy of the on-disk tier: key -> palette
    _palette_cache_dirty,
    _palette_cache_dirty_count,
    palette_cache_file,         \* content of cache/palette_cache.json
    palette_cache_tmp,          \* content of cache/palette_cache.json.tmp
    ret,                        \* the last extract_palette call and its result
    touches,                    \* number of outside changes of the image files so far
    restarts,                   \* number of restarts of the application so far
    failures,                   \* number of failed saves so far
    known                       \* history: key -> [pal, sig]: the palettes this instance
                                \* computed or loaded, and the signature each was computed for

VARIABLES
    \* ---- GTK theme CSS files and the theme metadata cache
    cssFiles,                   \* css path -> [exists, mtime, size, css]
    _metadata_cache,            \* css path -> [mtime, meta, parsedSize]
    _metadata_cache_dirty,
    metadata_cache_file,        \* content of cache/gtk_theme_metadata.json
    metadata_cache_tmp,         \* content of cache/gtk_theme_metadata.json.tmp
    metaRet,                    \* the last get_theme_metadata call and its result
    cssTouches                  \* number of outside changes of the CSS files so far

metaVars == <<cssFiles, _metadata_cache, _metadata_cache_dirty, metadata_cache_file,
              metadata_cache_tmp, metaRet, cssTouches>>

VARIABLES
    \* ---- reload worker threads saving the palette cache
    pc,                         \* worker -> its position in _reload_wallpapers_thread
    snap,                       \* worker -> the entries it copied under the lock
    fd,                         \* worker -> the file its open descriptor refers to
    written,                    \* worker -> number of chunks it has written
    inserted                    \* worker -> number of palettes it has inserted

workerVars == <<pc, snap, fd, written, inserted>>

VARIABLES
    \* ---- the settings store
    data,                       \* SettingsStore.data
    settings_file,              \* content of settings.json
    lastSaved,                  \* history: the JSON value of the last successful save
    lastCall,                   \* history: the last call, its argument, the mode getters
                                \* before it, and whether it raised
    calls,                      \* number of calls and restarts so far
    saveFailures,               \* number of failed settings saves so far
    running                     \* FALSE once a construction has failed

settingsVars == <<data, settings_file, lastSaved, lastCall, calls, saveFailures, running>>

VARIABLES
    \* ---- the services without state of their own, one exercised per behaviour
    service,                    \* the service exercised: "fetch", .. or "none"
    fetchFs,                    \* engine string -> what library/fetch/<engine> resolves to:
                                \* [isdir, raises, entries], entries in iterdir order
    fetchRet,                   \* the last list_presets call and its result
    themeCss,                   \* theme name -> stat of its gtk.css: [exists, mtime_ns, size]
    previewRet,                 \* the last two preview_cache_path calls, newest last
    rendererExists,             \* gtk_preview_renderer.py is installed
    outFile,                    \* out_path: "none", or the preview it holds
    tmpFile,                    \* out_path + ".tmp": "none", "stale", "partial", "complete"
    renderRet,                  \* the last render_preview_to_cache call
    classified,                 \* the last metadata computed for a (name, CSS text)
    barTarget,                  \* the bar's config file: "none" or its content
    barBackups,                 \* stamp -> content of "<config>.bak-<stamp>"
    barClock,                   \* the clock, in seconds
    barHeld,                    \* every content the config held just before an install
    barInstalled,               \* the preset has been installed
    themeDirs,                  \* the system and user theme folders, in search order
    gsettings,                  \* org.gnome.desktop.interface: key -> value
    rcXml,                      \* ~/.config/openbox/rc.xml: [exists, intact, node, name],
                                \* node: it has <theme><name>, name: that node's text
    applyRet                    \* the last apply call, what it did and what it listed

serviceVars == <<service, fetchFs, fetchRet, themeCss, previewRet,
                 rendererExists, outFile, tmpFile, renderRet, classified,
                 barTarget, barBackups, barClock, barHeld, barInstalled,
                 themeDirs, gsettings, rcXml, applyRet>>

VARIABLES
    \* ---- the application window and the name store, one exercised per behaviour
    nameBefore,                 \* history: what get returned for each path, for the
                                \* fallback "?", before the last name operation
    ui                          \* the window: active_top_mode, mode_btn (the active
                                \* mode button), page (content_stack's visible child),
                                \* stack_visible, selected (sidebar_list's selected row),
                                \* the _last_* names, _bar_preview_refresh_source (0 for
                                \* None), sources (the live GLib timeouts of the
                                \* refresh), top_mode and file_top_mode (ui.top_mode in
                                \* SettingsStore.data and in settings.json),
                                \* save_failed (a settings.save() has raised), last
                                \* (the last handler)

uiVars == <<nameBefore, ui>>

barVars == <<barTarget, barBackups, barClock, barHeld, barInstalled,
            themeDirs, gsettings, rcXml, applyRet>>

paletteVars == <<files, _palette_cache, _palette_disk_cache, _palette_cache_dirty,
                 _palette_cache_dirty_count, palette_cache_file, palette_cache_tmp,
                 ret, touches, restarts, failures, known>>

vars == <<paletteVars, metaVars, workerVars, settingsVars, serviceVars, uiVars>>

----------------------------------------------------------------------------
\* Generic helpers

Max(a, b) == IF a >= b THEN a ELSE b
Min(a, b) == IF a <= b THEN a ELSE b

EmptyDict == [k \in {} |-> <<>>]

\* d[k] = v of a Python dict
Put(d, k, v) == [x \in (DOMAIN d) \cup {k} |-> IF x = k THEN v ELSE d[x]]

\* Python slice s[:n], also for n <= 0
PySlice(s, n) ==
    IF n >= 0 THEN SubSeq(s, 1, Min(n, Len(s)))
    ELSE SubSeq(s, 1, Max(0, Len(s) + n))

\* A file of the cache directory.  A JSON text is written in NChunks writes;
\* its content is the sequence of the chunks present, each chunk naming the
\* payload it belongs to and its position.
NChunks == 2
Absent == [exists |-> FALSE, chunks |-> <<>>]
Complete(payload) == [exists |-> TRUE,
                      chunks |-> [i \in 1..NChunks |-> [p |-> payload, i |-> i]]]
Truncated == [exists |-> TRUE, chunks |-> <<>>]
IsComplete(f) ==
    /\ f.exists
    /\ Len(f.chunks) = NChunks
    /\ \A i \in 1..NChunks : f.chunks[i].i = i /\ f.chunks[i].p = f.chunks[1].p
\* json.loads of the file: the payload, defined only when IsComplete
PayloadOf(f) == f.chunks[1].p

----------------------------------------------------------------------------
\* Bounds of the palette model

MaxDirty == 3
MaxEntries == 2
MaxTouches == 1
MaxRestarts == 1
MaxFailures == 1

Paths == {"a.png"}

\* the versions an image file goes through: [exists, mtime, size, img], img
\* indexing Images.  Between two of them the size changes under the same
\* mtime, the mtime under the same size, or the content under the same
\* signature.
Missing == [exists |-> FALSE, mtime |-> 0, size |-> 0, img |-> 3]
FileVersions == {[exists |-> TRUE, mtime |-> 1, size |-> 1, img |-> 1],
                 [exists |-> TRUE, mtime |-> 1, size |-> 2, img |-> 2],
                 [exists |-> TRUE, mtime |-> 2, size |-> 1, img |-> 2],
                 [exists |-> TRUE, mtime |-> 1, size |-> 1, img |-> 3],
                 [exists |-> TRUE, mtime |-> 2, size |-> 2, img |-> 4]}
PathArgs == Paths \cup {"a_link.png"}
Counts == {0, 1, 2}

\* Path.resolve(): a symlink resolves to its target
Resolve(p) == IF p = "a_link.png" THEN "a.png" ELSE p

\* Decoded images as Pixbuf.new_from_file_at_scale hands them to the loop:
\* width, height, channel count n and the pixels in row-major order.
Images == <<
    [readable |-> TRUE, width |-> 2, height |-> 2, n |-> 3,
     data |-> << <<200, 30, 30, 255>>, <<200, 30, 50, 255>>,
                 <<210, 40, 35, 255>>, <<10, 10, 10, 255>> >>],
    [readable |-> TRUE, width |-> 2, height |-> 1, n |-> 4,
     data |-> << <<100, 100, 100, 5>>, <<50, 120, 250, 255>> >>],
    [readable |-> FALSE, width |-> 0, height |-> 0, n |-> 3, data |-> << >>],
    [readable |-> TRUE, width |-> 1, height |-> 2, n |-> 4,
     data |-> << <<0, 0, 0, 0>>, <<255, 255, 255, 19>> >>]
>>

QUANT == 24
MIN_DISTANCE == 30
SAMPLE_TARGET == 1800
ALPHA_MIN == 20
FLUSH_THRESHOLD == 24
FALLBACK_PALETTE == << <<76, 86, 106>>, <<94, 129, 172>>, <<136, 192, 208>>,
                       <<163, 190, 140>>, <<235, 203, 139>> >>

----------------------------------------------------------------------------
\* WallpaperService._file_signature

\* _file_signature: (st_mtime_ns, st_size), or (0, 0) when stat fails
_file_signature(path) ==
    LET f == files[Resolve(path)]
    IN IF f.exists THEN <<f.mtime, f.size>> ELSE <<0, 0>>

_palette_cache_key_nosize(path, count) ==
    <<Resolve(path), _file_signature(path)[1], 0, count>>

\* _palette_cache_key: sha1 of "resolved|mtime:size|count"
_palette_cache_key(path, count) ==
    <<Resolve(path), _file_signature(path)[1], _file_signature(path)[2], count>>

\* every colour passes the distance test
AlwaysFar(a, b) == TRUE

\* _color_distance(a, b) >= 30, compared on the squares
FarEnough(a, b) ==
    (a[1] - b[1]) * (a[1] - b[1]) + (a[2] - b[2]) * (a[2] - b[2])
        + (a[3] - b[3]) * (a[3] - b[3]) >= MIN_DISTANCE * MIN_DISTANCE

Quantize(px) == << (px[1] \div QUANT) * QUANT, (px[2] \div QUANT) * QUANT,
                   (px[3] \div QUANT) * QUANT >>

\* the sampled pixel positions: range(0, height, step) x range(0, width, step)
SampleStep(img) == Max(1, (img.width * img.height) \div SAMPLE_TARGET)

RECURSIVE SampleFrom(_, _, _)
SampleFrom(img, x, y) ==
    IF y >= img.height THEN << >>
    ELSE IF x >= img.width THEN SampleFrom(img, 0, y + SampleStep(img))
    ELSE LET px == img.data[y * img.width + x + 1]
             rest == SampleFrom(img, x + SampleStep(img), y)
         IN IF img.n = 4 /\ px[4] < ALPHA_MIN THEN rest
            ELSE <<Quantize(px)>> \o rest

\* freq: the buckets in first-seen order and their counts
RECURSIVE Buckets(_, _)
Buckets(samples, seen) ==
    IF samples = << >> THEN seen
    ELSE IF \E i \in 1..Len(seen) : seen[i] = Head(samples)
         THEN Buckets(Tail(samples), seen)
         ELSE Buckets(Tail(samples), Append(seen, Head(samples)))

Freq(samples, c) == Cardinality({i \in 1..Len(samples) : samples[i] = c})

\* sorted(freq.items(), key=count, reverse=True): stable insertion
RECURSIVE InsertRanked(_, _, _)
InsertRanked(ranked, c, samples) ==
    IF ranked = << >> THEN <<c>>
    ELSE IF Freq(samples, Head(ranked)) >= Freq(samples, c)
         THEN <<Head(ranked)>> \o InsertRanked(Tail(ranked), c, samples)
         ELSE <<c>> \o ranked

RECURSIVE Ranked(_, _)
Ranked(buckets, samples) ==
    IF buckets = << >> THEN << >>
    ELSE InsertRanked(Ranked(SubSeq(buckets, 1, Len(buckets) - 1), samples),
                      buckets[Len(buckets)], samples)

\* the picking loop: append when far from every picked colour, then break
\* as soon as len(picked) >= count
RECURSIVE Pick(_, _, _)
Pick(ranked, picked, count) ==
    IF ranked = << >> THEN picked
    ELSE LET c == Head(ranked)
             p2 == IF \A i \in 1..Len(picked) : FarEnough(c, picked[i])
                   THEN Append(picked, c) ELSE picked
         IN IF Len(p2) >= count THEN p2 ELSE Pick(Tail(ranked), p2, count)

\* the colours extract_palette computes on a cache miss, before truncation
ComputeColors(img, count) ==
    LET samples == SampleFrom(img, 0, 0)
        colors == IF img.readable
                  THEN Pick(Ranked(Buckets(samples, << >>), samples), << >>, count)
                  ELSE << >>
    IN IF colors = << >> THEN FALLBACK_PALETTE ELSE colors

----------------------------------------------------------------------------
\* The palette cache: extract_palette, _save_palette_cache_to_disk,
\* _load_palette_cache_from_disk (WallpaperService and its copy in main.py)

NoRet == [src |-> "none", count |-> 0, sig |-> <<0, 0>>, img |-> 0,
          palette |-> << >>, wasKnown |-> FALSE, knownPal |-> << >>,
          originSig |-> <<0, 0>>]

\* "if cached:" is true for a present, non-empty list only
Truthy(d, key) == key \in DOMAIN d /\ d[key] # << >>

\* the JSON value both caches write: {"version": 1, "entries": entries}
CachePayload(entries) == [version |-> 1, entries |-> entries]

\* outcomes of the try block of _save_palette_cache_to_disk: it completes,
\* open() raises, write_text raises after k chunks, or replace() raises
OK == <<"ok", 0>>
SaveOutcomes == {OK, <<"open_failed", 0>>, <<"replace_failed", 0>>}
                    \cup {<<"write_failed", k>> : k \in 0..(NChunks - 1)}

PartialFile(payload, k) ==
    [exists |-> TRUE, chunks |-> [i \in 1..k |-> [p |-> payload, i |-> i]]]

\* what the tmp file holds after write_text and replace ended with `outcome`
TmpAfter(tmp, payload, outcome) ==
    IF outcome = OK THEN Absent
    ELSE IF outcome[1] = "open_failed" THEN tmp
    ELSE IF outcome[1] = "write_failed" THEN PartialFile(payload, outcome[2])
    ELSE Complete(payload)

\* the body of _save_palette_cache_to_disk once the dirty test has passed
SavePaletteBody(entries, outcome, count) ==
    LET payload == CachePayload(entries)
    IN /\ outcome # OK => failures < MaxFailures
       /\ failures' = IF outcome = OK THEN failures ELSE failures + 1
       /\ palette_cache_tmp' = TmpAfter(palette_cache_tmp, payload, outcome)
       /\ palette_cache_file' = IF outcome = OK THEN Complete(payload) ELSE palette_cache_file
       /\ _palette_cache_dirty' = (outcome # OK)
       /\ _palette_cache_dirty_count' = IF outcome = OK THEN 0 ELSE count

\* an image file is created, rewritten or deleted outside the application
TouchFile(p, v) ==
    /\ files[p] # v
    /\ touches < MaxTouches
    /\ touches' = touches + 1
    /\ files' = [files EXCEPT ![p] = v]
    /\ UNCHANGED <<restarts, failures, _palette_cache, _palette_disk_cache,
                   _palette_cache_dirty, _palette_cache_dirty_count,
                   palette_cache_file, palette_cache_tmp, ret, known>>

\* extract_palette(path, count)
ExtractPalette(path, count, outcome) ==
    LET key == _palette_cache_key(path, count)
        sig == _file_signature(path)
        f == files[Resolve(path)]
        base == [src |-> "none", count |-> count, sig |-> sig, img |-> 0,
                 palette |-> << >>,
                 wasKnown |-> key \in DOMAIN known,
                 knownPal |-> IF key \in DOMAIN known THEN known[key].pal ELSE << >>,
                 originSig |-> IF key \in DOMAIN known THEN known[key].sig ELSE <<0, 0>>]
    IN IF Truthy(_palette_cache, key)
       THEN /\ outcome = OK
            /\ ret' = [base EXCEPT !.src = "memory", !.palette = _palette_cache[key]]
            /\ UNCHANGED <<files, _palette_cache, _palette_disk_cache,
                           _palette_cache_dirty, _palette_cache_dirty_count,
                           palette_cache_file, palette_cache_tmp, touches, restarts, failures, known>>
       ELSE IF Truthy(_palette_disk_cache, key)
       THEN /\ outcome = OK
            /\ _palette_cache' = Put(_palette_cache, key,
                                     PySlice(_palette_disk_cache[key], count))
            /\ ret' = [base EXCEPT !.src = "disk", !.palette = _palette_cache'[key]]
            /\ UNCHANGED <<files, _palette_disk_cache,
                           _palette_cache_dirty, _palette_cache_dirty_count,
                           palette_cache_file, palette_cache_tmp, touches, restarts, failures, known>>
       ELSE LET colors == ComputeColors(IF f.exists THEN Images[f.img] ELSE Images[3],
                                        count)
                pal == PySlice(colors, count)
                n == _palette_cache_dirty_count + 1
            IN /\ _palette_cache_dirty_count < MaxDirty
               /\ Cardinality(DOMAIN known \cup {key}) <= MaxEntries
               /\ _palette_cache' = Put(_palette_cache, key, pal)
               /\ _palette_disk_cache' = Put(_palette_disk_cache, key, pal)
               /\ IF n >= FLUSH_THRESHOLD
                  THEN SavePaletteBody(_palette_disk_cache', outcome, n)
                  ELSE /\ outcome = OK
                       /\ UNCHANGED failures
                       /\ _palette_cache_dirty' = TRUE
                       /\ _palette_cache_dirty_count' = n
                       /\ UNCHANGED <<palette_cache_file, palette_cache_tmp>>
               /\ ret' = [base EXCEPT !.src = "computed", !.palette = pal,
                                       !.img = IF f.exists THEN f.img ELSE 3]
               /\ known' = Put(known, key, [pal |-> pal, sig |-> sig])
               /\ UNCHANGED <<files, touches, restarts>>

\* _save_palette_cache_to_disk()
SavePaletteCacheToDisk(outcome) ==
    /\ IF ~_palette_cache_dirty
       THEN /\ outcome = OK
            /\ UNCHANGED <<palette_cache_file, palette_cache_tmp, failures,
                           _palette_cache_dirty, _palette_cache_dirty_count>>
       ELSE SavePaletteBody(_palette_disk_cache, outcome, _palette_cache_dirty_count)
    /\ UNCHANGED <<files, _palette_cache, _palette_disk_cache, ret, touches, restarts, known>>

\* _load_palette_cache_from_disk: the entries kept from a parsed file
LoadedPaletteEntries(f) ==
    IF ~IsComplete(f) THEN EmptyDict
    ELSE LET e == PayloadOf(f).entries
         IN [k \in {x \in DOMAIN e : e[x] # << >>} |-> e[k]]

\* the application is started again: __init__ of a new instance
RestartPalette ==
    /\ _palette_cache' = EmptyDict
    /\ _palette_disk_cache' = LoadedPaletteEntries(palette_cache_file)
    /\ _palette_cache_dirty' = FALSE
    /\ _palette_cache_dirty_count' = 0
    /\ known' = [k \in DOMAIN LoadedPaletteEntries(palette_cache_file) |->
                    IF k \in DOMAIN known THEN known[k]
                    ELSE [pal |-> LoadedPaletteEntries(palette_cache_file)[k],
                          sig |-> <<k[2], k[3]>>]]
    /\ ret' = NoRet
    /\ restarts < MaxRestarts
    /\ restarts' = restarts + 1
    /\ UNCHANGED <<files, palette_cache_file, palette_cache_tmp, touches, failures>>

----------------------------------------------------------------------------
\* GtkThemeService: theme names, CSS colours and the light/dark type

\* str.lower() on a sequence of characters
Lower(str) ==
    LET upper == <<"A", "B", "C", "D", "E", "F", "G", "H", "I", "J", "K", "L", "M",
                   "N", "O", "P", "Q", "R", "S", "T", "U", "V", "W", "X", "Y", "Z">>
        lower == <<"a", "b", "c", "d", "e", "f", "g", "h", "i", "j", "k", "l", "m",
                   "n", "o", "p", "q", "r", "s", "t", "u", "v", "w", "x", "y", "z">>
        lowerChar(c) == IF \E i \in 1..26 : upper[i] = c
                        THEN lower[CHOOSE i \in 1..26 : upper[i] = c]
                        ELSE c
    IN [i \in 1..Len(str) |-> lowerChar(str[i])]

\* "t in n" for strings
Contains(n, t) ==
    \E i \in 0..(Len(n) - Len(t)) : SubSeq(n, i + 1, i + Len(t)) = t

DARK_TOKENS == { <<"d", "a", "r", "k">>, <<"b", "l", "a", "c", "k">>,
                 <<"n", "i", "g", "h", "t">>, <<"n", "o", "k", "t", "o">>,
                 <<"d", "r", "a", "c", "u", "l", "a">>, <<"n", "o", "i", "r">> }
LIGHT_TOKENS == { <<"l", "i", "g", "h", "t">>, <<"w", "h", "i", "t", "e">>,
                  <<"d", "a", "y">> }

_looks_dark_name(name) == \E t \in DARK_TOKENS : Contains(Lower(name), t)
_looks_light_name(name) == \E t \in LIGHT_TOKENS : Contains(Lower(name), t)

\* luminance < 0.46, on integers: (0.2126 r + 0.7152 g + 0.0722 b) / 255 < 0.46
LUM_R == 2126
LUM_G == 7152
LUM_B == 722
DARK_BELOW == 1173000
LumScaled(c) == LUM_R * c[1] + LUM_G * c[2] + LUM_B * c[3]

NoColor == << >>
DEFAULT_COLORS == [bg |-> <<47, 52, 63>>, fg |-> <<230, 234, 240>>,
                   accent |-> <<91, 161, 234>>]

\* The CSS texts: what _extract_color_from_css finds in each for the bg, fg
\* and accent variable lists (NoColor when no variable matches), or a file
\* whose read raises.
CssContents == <<
    [readable |-> TRUE, bg |-> <<250, 250, 250>>, fg |-> <<20, 20, 20>>, accent |-> NoColor],
    [readable |-> TRUE, bg |-> <<30, 30, 46>>, fg |-> NoColor, accent |-> <<137, 180, 250>>],
    [readable |-> FALSE, bg |-> NoColor, fg |-> NoColor, accent |-> NoColor]
>>

\* get_theme_metadata on a cache miss: the colours and the type
ComputeMeta(name, css) ==
    LET colors == [bg |-> IF css.readable /\ css.bg # NoColor THEN css.bg
                          ELSE DEFAULT_COLORS.bg,
                   fg |-> IF css.readable /\ css.fg # NoColor THEN css.fg
                          ELSE DEFAULT_COLORS.fg,
                   accent |-> IF css.readable /\ css.accent # NoColor THEN css.accent
                              ELSE DEFAULT_COLORS.accent]
        has_dark_name == _looks_dark_name(name)
        has_light_name == _looks_light_name(name)
        \* _get_luminance(bg) < 0.46 in double precision: of the twenty colours
        \* whose luminance is 0.46, these seventeen evaluate to 0.4599999999999999
        \* or 0.45999999999999996, the other three to 0.46
        rounded_down == { <<5, 160, 25>>, <<8, 137, 244>>, <<22, 150, 74>>, <<39, 140, 123>>,
                          <<56, 130, 172>>, <<70, 143, 2>>, <<73, 120, 221>>, <<87, 133, 51>>,
                          <<104, 123, 100>>, <<155, 93, 247>>, <<169, 106, 77>>,
                          <<186, 96, 126>>, <<203, 86, 175>>, <<217, 99, 5>>,
                          <<220, 76, 224>>, <<234, 89, 54>>, <<251, 79, 103>> }
        lum_below == \/ LumScaled(colors.bg) < DARK_BELOW
                     \/ LumScaled(colors.bg) = DARK_BELOW /\ colors.bg \in rounded_down
        theme_type == IF has_dark_name /\ ~has_light_name THEN "dark"
                      ELSE IF has_light_name /\ ~has_dark_name THEN "light"
                      ELSE IF lum_below THEN "dark"
                      ELSE "light"
    IN [colors |-> colors, type |-> theme_type]

----------------------------------------------------------------------------
\* The theme metadata cache: get_theme_metadata, _save_metadata_cache_to_disk,
\* _load_metadata_cache_from_disk

MaxCssTouches == 2

CssPaths == {"Adwaita/gtk-3.0/gtk.css", "Nordic/gtk-3.0/gtk.css"}
Themes == {[name |-> <<"A", "d", "w", "a", "i", "t", "a">>,
            css |-> "Adwaita/gtk-3.0/gtk.css"],
           [name |-> <<"N", "o", "r", "d", "i", "c", "-", "D", "a", "r", "k">>,
            css |-> "Nordic/gtk-3.0/gtk.css"]}

CssMissing == [exists |-> FALSE, mtime |-> 0, size |-> 0, css |-> 3]
CssVersions == {[exists |-> TRUE, mtime |-> 1, size |-> 1, css |-> 1],
                [exists |-> TRUE, mtime |-> 1, size |-> 2, css |-> 2],
                [exists |-> TRUE, mtime |-> 2, size |-> 1, css |-> 2],
                [exists |-> TRUE, mtime |-> 2, size |-> 2, css |-> 3]}

NoMeta == [colors |-> DEFAULT_COLORS, type |-> "unknown"]
NoMetaRet == [src |-> "none", css |-> "Adwaita/gtk-3.0/gtk.css", mtime |-> 0,
              size |-> 0, meta |-> NoMeta, hadEntry |-> FALSE, entryMtime |-> 0,
              entrySize |-> 0, entryMeta |-> NoMeta]

CachedAnyMtime(css_path, mtime) == css_path \in DOMAIN _metadata_cache

\* "cached is not None and cached[0] == mtime"
Cached(css_path, mtime) ==
    /\ css_path \in DOMAIN _metadata_cache
    /\ _metadata_cache[css_path].mtime = mtime

\* a CSS file is created or rewritten outside the application
TouchCss(p, v) ==
    /\ cssFiles[p] # v
    /\ cssTouches < MaxCssTouches
    /\ cssTouches' = cssTouches + 1
    /\ cssFiles' = [cssFiles EXCEPT ![p] = v]
    /\ UNCHANGED <<_metadata_cache, _metadata_cache_dirty, metadata_cache_file,
                   metadata_cache_tmp, metaRet>>

\* get_theme_metadata(name, css_path)
GetThemeMetadata(theme) ==
    LET f == cssFiles[theme.css]
        mtime == IF f.exists THEN f.mtime ELSE 0
        had == theme.css \in DOMAIN _metadata_cache
        base == [src |-> "none", css |-> theme.css, mtime |-> mtime,
                 size |-> IF f.exists THEN f.size ELSE 0, meta |-> NoMeta,
                 hadEntry |-> had,
                 entryMtime |-> IF had THEN _metadata_cache[theme.css].mtime ELSE 0,
                 entrySize |-> IF had THEN _metadata_cache[theme.css].parsedSize ELSE 0,
                 entryMeta |-> IF had THEN _metadata_cache[theme.css].meta ELSE NoMeta]
    IN IF Cached(theme.css, mtime)
       THEN /\ metaRet' = [base EXCEPT !.src = "cache",
                                       !.meta = _metadata_cache[theme.css].meta]
            /\ UNCHANGED <<cssFiles, _metadata_cache, _metadata_cache_dirty,
                           metadata_cache_file, metadata_cache_tmp, cssTouches>>
       ELSE LET meta == ComputeMeta(theme.name,
                                    IF f.exists THEN CssContents[f.css]
                                    ELSE CssContents[3])
            IN /\ _metadata_cache' =
                      Put(_metadata_cache, theme.css,
                          [mtime |-> mtime, meta |-> meta, parsedSize |-> base.size])
               /\ _metadata_cache_dirty' = TRUE
               /\ metaRet' = [base EXCEPT !.src = "parsed", !.meta = meta]
               /\ UNCHANGED <<cssFiles, metadata_cache_file, metadata_cache_tmp,
                              cssTouches>>

\* _save_metadata_cache_to_disk()
SaveMetadataCacheToDisk(outcome) ==
    /\ IF ~_metadata_cache_dirty
       THEN /\ outcome = OK
            /\ UNCHANGED <<metadata_cache_file, metadata_cache_tmp,
                           _metadata_cache_dirty>>
       ELSE LET payload == CachePayload(_metadata_cache)
            IN /\ metadata_cache_tmp' = TmpAfter(metadata_cache_tmp, payload, outcome)
               /\ metadata_cache_file' = IF outcome = OK THEN Complete(payload)
                                         ELSE metadata_cache_file
               /\ _metadata_cache_dirty' = (outcome # OK)
    /\ UNCHANGED <<cssFiles, _metadata_cache, metaRet, cssTouches>>

\* _load_metadata_cache_from_disk: the entries of a parsed file
LoadedMetaEntries(f) ==
    IF ~IsComplete(f) THEN EmptyDict ELSE PayloadOf(f).entries

\* the application is started again: GtkThemeService.__init__
RestartMeta ==
    /\ _metadata_cache' = LoadedMetaEntries(metadata_cache_file)
    /\ _metadata_cache_dirty' = FALSE
    /\ metaRet' = NoMetaRet
    /\ UNCHANGED <<cssFiles, metadata_cache_file, metadata_cache_tmp, cssTouches>>

\* on_clear_cache_clicked: every file under the cache directory whose name is
\* not palette_cache.json is unlinked; an unlink that raises (for the names in
\* `failed`) is skipped
Unlinked(f, name, failed) == IF name \in failed THEN f ELSE Absent
ClearCache(failed) ==
    /\ palette_cache_tmp.exists \/ metadata_cache_file.exists \/ metadata_cache_tmp.exists
    /\ palette_cache_tmp' = Unlinked(palette_cache_tmp, "palette_cache.json.tmp", failed)
    /\ metadata_cache_file' = Unlinked(metadata_cache_file, "gtk_theme_metadata.json", failed)
    /\ metadata_cache_tmp' = Unlinked(metadata_cache_tmp, "gtk_theme_metadata.json.tmp", failed)
    /\ UNCHANGED <<files, _palette_cache, _palette_disk_cache, _palette_cache_dirty,
                   _palette_cache_dirty_count, palette_cache_file, ret, touches,
                   restarts, failures, known>>
    /\ UNCHANGED <<cssFiles, _metadata_cache, _metadata_cache_dirty, metaRet, cssTouches>>
    /\ UNCHANGED <<workerVars, settingsVars, serviceVars, uiVars>>

\* GtkThemeService.__init__, the CSS files being any of `start`
InitMeta(start) ==
    /\ cssFiles \in [CssPaths -> start]
    /\ _metadata_cache = EmptyDict
    /\ _metadata_cache_dirty = FALSE
    /\ metadata_cache_file = Absent
    /\ metadata_cache_tmp = Absent
    /\ metaRet = NoMetaRet
    /\ cssTouches = 0

----------------------------------------------------------------------------
\* Reload worker threads (_reload_wallpapers_thread): each extracts palettes
\* and then calls _save_palette_cache_to_disk, whose steps interleave with the
\* other worker's.  Both workers use the one path palette_cache.json.tmp.

MaxInserts == 1

Workers == {"reload1", "reload2"}
\* the content after a descriptor writes chunk i of `payload` at its offset;
\* a gap before the offset reads as a hole (chunk 0 of nothing)
WriteChunk(f, payload, i) ==
    [exists |-> TRUE,
     chunks |-> [j \in 1..Max(Len(f.chunks), i) |->
                    IF j = i THEN [p |-> payload, i |-> i]
                    ELSE IF j <= Len(f.chunks) THEN f.chunks[j]
                    ELSE [p |-> CachePayload(EmptyDict), i |-> 0]]]

\* the worker loop body: a palette is computed and put into the cache
\* (extract_palette on a miss, below the flush threshold)
WorkerInsert(w) ==
    /\ pc[w] = "loop"
    /\ inserted[w] < MaxInserts
    /\ inserted' = [inserted EXCEPT ![w] = @ + 1]
    /\ LET key == <<IF w = "reload1" THEN "w1.png" ELSE "w2.png", 1, 1, 5>>
       IN /\ _palette_cache' = Put(_palette_cache, key, FALLBACK_PALETTE)
          /\ _palette_disk_cache' = Put(_palette_disk_cache, key, FALLBACK_PALETTE)
    /\ _palette_cache_dirty' = TRUE
    /\ _palette_cache_dirty_count' = _palette_cache_dirty_count + 1
    /\ UNCHANGED <<pc, snap, fd, written, palette_cache_file, palette_cache_tmp>>

\* the loop ends; _save_palette_cache_to_disk tests the dirty flag
WorkerSaveBegin(w) ==
    /\ pc[w] = "loop"
    /\ pc' = [pc EXCEPT ![w] = IF _palette_cache_dirty THEN "copy" ELSE "done"]
    /\ UNCHANGED <<_palette_cache, snap, fd, written, inserted, _palette_disk_cache,
                   _palette_cache_dirty, _palette_cache_dirty_count,
                   palette_cache_file, palette_cache_tmp>>

\* entries = dict(self._palette_disk_cache), under the lock
WorkerCopy(w) ==
    /\ pc[w] = "copy"
    /\ snap' = [snap EXCEPT ![w] = _palette_disk_cache]
    /\ pc' = [pc EXCEPT ![w] = "open"]
    /\ UNCHANGED <<_palette_cache, fd, written, inserted, _palette_disk_cache, _palette_cache_dirty,
                   _palette_cache_dirty_count, palette_cache_file, palette_cache_tmp>>

\* write_text opens the tmp path for writing: the file is created or truncated
WorkerOpen(w) ==
    /\ pc[w] = "open"
    /\ palette_cache_tmp' = Truncated
    /\ fd' = [fd EXCEPT ![w] = "tmp"]
    /\ written' = [written EXCEPT ![w] = 0]
    /\ pc' = [pc EXCEPT ![w] = "write"]
    /\ UNCHANGED <<_palette_cache, snap, inserted, _palette_disk_cache, _palette_cache_dirty,
                   _palette_cache_dirty_count, palette_cache_file>>

\* write_text writes the next chunk through its descriptor, which follows the
\* file when another worker has renamed it; after the last chunk it closes
WorkerWrite(w) ==
    /\ pc[w] = "write"
    /\ written[w] < NChunks
    /\ written' = [written EXCEPT ![w] = @ + 1]
    /\ palette_cache_tmp' =
          IF fd[w] = "tmp"
          THEN WriteChunk(palette_cache_tmp, CachePayload(snap[w]), written[w] + 1)
          ELSE palette_cache_tmp
    /\ palette_cache_file' =
          IF fd[w] = "final"
          THEN WriteChunk(palette_cache_file, CachePayload(snap[w]), written[w] + 1)
          ELSE palette_cache_file
    /\ pc' = [pc EXCEPT ![w] = IF written[w] + 1 = NChunks THEN "replace" ELSE "write"]
    /\ fd' = [fd EXCEPT ![w] = IF written[w] + 1 = NChunks THEN "none" ELSE @]
    /\ UNCHANGED <<_palette_cache, snap, inserted, _palette_disk_cache, _palette_cache_dirty,
                   _palette_cache_dirty_count>>

\* write_text raises part-way (disk full, I/O error): "except Exception: pass"
WorkerWriteFails(w) ==
    /\ pc[w] = "write"
    /\ pc' = [pc EXCEPT ![w] = "done"]
    /\ fd' = [fd EXCEPT ![w] = "none"]
    /\ UNCHANGED <<_palette_cache, snap, written, inserted, _palette_disk_cache, _palette_cache_dirty,
                   _palette_cache_dirty_count, palette_cache_file, palette_cache_tmp>>

\* tmp.replace(palette_cache_file): an atomic rename, FileNotFoundError when
\* the other worker has already renamed the tmp file away
WorkerReplace(w) ==
    /\ pc[w] = "replace"
    /\ IF palette_cache_tmp.exists
       THEN /\ palette_cache_file' = palette_cache_tmp
            /\ palette_cache_tmp' = Absent
            /\ fd' = [x \in Workers |-> IF fd[x] = "tmp" THEN "final"
                                        ELSE IF fd[x] = "final" THEN "orphan"
                                        ELSE fd[x]]
            /\ pc' = [pc EXCEPT ![w] = "clear"]
       ELSE /\ pc' = [pc EXCEPT ![w] = "done"]
            /\ UNCHANGED <<_palette_cache, palette_cache_file, palette_cache_tmp, fd>>
    /\ UNCHANGED <<_palette_cache, snap, written, inserted, _palette_disk_cache, _palette_cache_dirty,
                   _palette_cache_dirty_count>>

\* self._palette_cache_dirty = False; self._palette_cache_dirty_count = 0
WorkerClear(w) ==
    /\ pc[w] = "clear"
    /\ _palette_cache_dirty' = FALSE
    /\ _palette_cache_dirty_count' = 0
    /\ pc' = [pc EXCEPT ![w] = "done"]
    /\ UNCHANGED <<_palette_cache, snap, fd, written, inserted, _palette_disk_cache,
                   palette_cache_file, palette_cache_tmp>>

\* a finished worker's slot is taken by the worker of the next reload
WorkerRespawn(w) ==
    /\ pc[w] = "done"
    /\ inserted[w] < MaxInserts
    /\ pc' = [pc EXCEPT ![w] = "loop"]
    /\ UNCHANGED <<_palette_cache, snap, fd, written, inserted, _palette_disk_cache,
                   _palette_cache_dirty, _palette_cache_dirty_count,
                   palette_cache_file, palette_cache_tmp>>

\* the workers, all at position `at`
InitWorkers(at) ==
    /\ pc = [w \in Workers |-> at]
    /\ snap = [w \in Workers |-> EmptyDict]
    /\ fd = [w \in Workers |-> "none"]
    /\ written = [w \in Workers |-> 0]
    /\ inserted = [w \in Workers |-> 0]

workerFrame == <<files, ret, known, touches, restarts, failures>>

NextSave ==
    \E w \in Workers :
        \/ WorkerInsert(w) /\ UNCHANGED <<workerFrame, metaVars, settingsVars, serviceVars, uiVars>>
        \/ WorkerSaveBegin(w) /\ UNCHANGED <<workerFrame, metaVars, settingsVars, serviceVars, uiVars>>
        \/ WorkerCopy(w) /\ UNCHANGED <<workerFrame, metaVars, settingsVars, serviceVars, uiVars>>
        \/ WorkerOpen(w) /\ UNCHANGED <<workerFrame, metaVars, settingsVars, serviceVars, uiVars>>
        \/ WorkerWrite(w) /\ UNCHANGED <<workerFrame, metaVars, settingsVars, serviceVars, uiVars>>
        \/ WorkerWriteFails(w) /\ UNCHANGED <<workerFrame, metaVars, settingsVars, serviceVars, uiVars>>
        \/ WorkerReplace(w) /\ UNCHANGED <<workerFrame, metaVars, settingsVars, serviceVars, uiVars>>
        \/ WorkerClear(w) /\ UNCHANGED <<workerFrame, metaVars, settingsVars, serviceVars, uiVars>>
        \/ WorkerRespawn(w) /\ UNCHANGED <<workerFrame, metaVars, settingsVars, serviceVars, uiVars>>

\* The settings store (backend/settings.py) and the wallpaper settings built
\* on it (backend/wallpapers.py).
\*
\* A JSON value that may or may not be an object is [isdict, d].  A settings
\* section is a dict from the setting's name to its value: a mode is a string,
\* thumb_size is a number-like value [k, i, l], a colour is a sequence of
\* characters, custom_dirs is [islist, items] with items [k, s].

MaxCalls == 3
MaxSaveFailures == 1

JDict(d) == [isdict |-> TRUE, d |-> d]
JOther == [isdict |-> FALSE, d |-> EmptyDict]

Get(d, k, default) == IF k \in DOMAIN d THEN d[k] ELSE default
SetDefault(d, k, v) == IF k \in DOMAIN d THEN d ELSE Put(d, k, v)

FILL_MODES == <<"zoom-fill", "centered", "scaled", "tiled", "auto">>
SORT_MODES == <<"name_asc", "name_desc", "newest", "oldest">>
THUMB_SIZE_MIN == 160
THUMB_SIZE_MAX == 320
THUMB_SIZE_DEFAULT == 220

InList(x, s) == \E i \in 1..Len(s) : s[i] = x

\* ---- number-like values and Python's int()

\* k is "int", "float" (i in tenths), "str" (l its characters), "none" or "nan"
NumV(k, i, l) == [k |-> k, i |-> i, l |-> l]

\* the value of a hexadecimal digit character, -1 for any other character
HexVal(c) ==
    LET lower == <<"0", "1", "2", "3", "4", "5", "6", "7", "8", "9",
                   "a", "b", "c", "d", "e", "f">>
        upper == <<"0", "1", "2", "3", "4", "5", "6", "7", "8", "9",
                   "A", "B", "C", "D", "E", "F">>
    IN IF \E i \in 1..16 : lower[i] = c \/ upper[i] = c
       THEN (CHOOSE i \in 1..16 : lower[i] = c \/ upper[i] = c) - 1
       ELSE -1

\* str.strip() of blanks
RECURSIVE Strip(_)
Strip(s) ==
    IF s # << >> /\ Head(s) = " " THEN Strip(Tail(s))
    ELSE IF s # << >> /\ s[Len(s)] = " " THEN Strip(SubSeq(s, 1, Len(s) - 1))
    ELSE s

RECURSIVE DigitsValue(_, _)
DigitsValue(s, acc) ==
    IF s = << >> THEN acc ELSE DigitsValue(Tail(s), 10 * acc + HexVal(Head(s)))

\* int(value): [ok, n]; ok is FALSE where int() raises
PyInt(v) ==
    IF v.k = "int" THEN [ok |-> TRUE, n |-> v.i]
    ELSE IF v.k = "float"
         THEN [ok |-> TRUE,
               n |-> IF v.i >= 0 THEN v.i \div 10 ELSE -((-v.i) \div 10)]
    ELSE IF v.k = "str"
         THEN LET t == Strip(v.l)
                  signed == t # << >> /\ Head(t) \in {"+", "-"}
                  body == IF signed THEN Tail(t) ELSE t
              IN IF body # << >> /\ \A j \in 1..Len(body) : HexVal(body[j]) \in 0..9
                 THEN [ok |-> TRUE,
                       n |-> IF signed /\ Head(t) = "-"
                             THEN -DigitsValue(body, 0) ELSE DigitsValue(body, 0)]
                 ELSE [ok |-> FALSE, n |-> 0]
    ELSE [ok |-> FALSE, n |-> 0]

ClampThumbNoMax(n) == Max(THUMB_SIZE_MIN, n)
ClampThumb(n) == Max(THUMB_SIZE_MIN, Min(THUMB_SIZE_MAX, n))

\* ---- colour strings and int(raw[a:b], 16)

\* int(pair, 16) of a two-character slice: [ok, n]
HexByte(pair) ==
    IF Len(pair) = 2 /\ HexVal(pair[1]) >= 0 /\ HexVal(pair[2]) >= 0
    THEN [ok |-> TRUE, n |-> 16 * HexVal(pair[1]) + HexVal(pair[2])]
    ELSE IF Len(pair) = 2 /\ pair[1] \in {"+", " "} /\ HexVal(pair[2]) >= 0
    THEN [ok |-> TRUE, n |-> HexVal(pair[2])]
    ELSE IF Len(pair) = 2 /\ pair[1] = "-" /\ HexVal(pair[2]) >= 0
    THEN [ok |-> TRUE, n |-> -HexVal(pair[2])]
    ELSE IF Len(pair) = 2 /\ HexVal(pair[1]) >= 0 /\ pair[2] = " "
    THEN [ok |-> TRUE, n |-> HexVal(pair[1])]
    ELSE [ok |-> FALSE, n |-> 0]

DEFAULT_BADGE == <<"#", "1", "4", "8", "2", "C", "8">>

\* ---- paths

library_dir == "/app/library/wallpapers"
colorized_dir == "/app/library/wallpapers/colorized"
system_dirs == <<"/usr/share/backgrounds", "/usr/share/wallpapers">>

\* Path(text): pathlib drops a trailing slash
PathOf(text) ==
    IF text = "/app/library/wallpapers/colorized/" THEN colorized_dir ELSE text

expanduser(p) == IF p = "~/pics" THEN "/home/user/pics" ELSE p

\* p.resolve(): symbolic links followed, a relative path made absolute; it
\* raises for "/app/loop", a symbolic link loop
resolve(p) ==
    IF p = "/app/colorized_link" THEN colorized_dir
    ELSE IF p = "xyz" THEN "/cwd/xyz"
    ELSE p

\* what the file system holds at a path
Kind(p) ==
    IF p \in {library_dir, colorized_dir, "/app/foo", "/usr/share/backgrounds",
              "/home/user/pics", "/app/colorized_link"} THEN "dir"
    ELSE IF p = "/app/pic.png" THEN "file"
    ELSE "missing"

\* an item of custom_dirs: k is "str" (s its text), "float" or "none"
DirItem(k, s) == [k |-> k, s |-> s]
DirStr(text) == DirItem("str", text)
DirList(items) == [islist |-> TRUE, items |-> items]

\* ---- SettingsStore

\* SettingsStore.load
load(f) ==
    IF ~f.exists THEN EmptyDict
    ELSE IF ~IsComplete(f) THEN EmptyDict
    ELSE IF ~PayloadOf(f).isdict THEN EmptyDict
    ELSE PayloadOf(f).d

\* the section SettingsStore.get_section returns
get_section(d, key) ==
    IF key \in DOMAIN d /\ d[key].isdict THEN d[key].d ELSE EmptyDict

\* what settings.json holds after SettingsStore.save of d ended with `outcome`
SettingsFileAfter(f, d, outcome) ==
    IF outcome = OK THEN Complete(JDict(d))
    ELSE IF outcome[1] = "open_failed" THEN f
    ELSE PartialFile(JDict(d), outcome[2])

\* ---- WallpaperService: getters

get_state == get_section(data, "wallpapers")

get_source ==
    LET source == Get(get_state, "source", "custom")
    IN IF source \in {"custom", "system"} THEN source ELSE "custom"

get_fill_mode ==
    LET mode == Get(get_state, "fill_mode", "zoom-fill")
    IN IF InList(mode, FILL_MODES) THEN mode ELSE "zoom-fill"

get_view_mode ==
    LET mode == Get(get_state, "view_mode", "grid")
    IN IF mode \in {"grid", "list"} THEN mode ELSE "grid"

get_sort_mode ==
    LET mode == Get(get_state, "sort_mode", "name_asc")
    IN IF InList(mode, SORT_MODES) THEN mode ELSE "name_asc"

get_thumb_size ==
    LET value == Get(get_state, "thumb_size", NumV("int", THUMB_SIZE_DEFAULT, << >>))
        size == IF PyInt(value).ok THEN PyInt(value).n ELSE THUMB_SIZE_DEFAULT
    IN ClampThumb(size)

RECURSIVE CustomDirsLoop(_, _)
CustomDirsLoop(items, result) ==
    IF items = << >> THEN result
    ELSE LET value == Head(items)
         IN IF value.k # "str" THEN CustomDirsLoop(Tail(items), result)
            ELSE LET p == expanduser(PathOf(value.s))
                 IN CustomDirsLoop(Tail(items),
                                   IF InList(p, result) THEN result
                                   ELSE Append(result, p))

\* [raised, dirs]: raised where iterating the stored value raises
get_custom_dirs ==
    LET dirs == Get(get_state, "custom_dirs", DirList(<<DirStr(library_dir)>>))
        result == CustomDirsLoop(dirs.items, << >>)
    IN IF ~dirs.islist THEN [raised |-> TRUE, dirs |-> << >>]
       ELSE [raised |-> FALSE,
             dirs |-> IF result = << >> THEN <<library_dir>> ELSE result]

RECURSIVE Unique(_, _)
Unique(dirs, unique) ==
    IF dirs = << >> THEN unique
    ELSE Unique(Tail(dirs),
                IF Kind(Head(dirs)) # "missing" /\ ~InList(Head(dirs), unique)
                THEN Append(unique, Head(dirs)) ELSE unique)

get_search_dirs_any_source ==
    LET dirs == get_custom_dirs.dirs
        withColorized == IF InList(colorized_dir, dirs) THEN dirs
                         ELSE Append(dirs, colorized_dir)
    IN Unique(withColorized, << >>)

get_search_dirs ==
    LET dirs == IF get_source = "system" THEN system_dirs ELSE get_custom_dirs.dirs
        withColorized == IF InList(colorized_dir, dirs) THEN dirs
                         ELSE Append(dirs, colorized_dir)
    IN Unique(withColorized, << >>)

\* [r, g, b, alpha (in hundredths), text]
get_colorized_badge_css ==
    LET stripped == Strip(Get(get_state, "colorized_tag_color",
                              Get(get_state, "colorized_badge_color", DEFAULT_BADGE)))
        nohash == IF stripped # << >> /\ Head(stripped) = "#"
                  THEN Tail(stripped) ELSE stripped
        raw == IF Len(nohash) # 6 THEN Tail(DEFAULT_BADGE) ELSE nohash
        rr == HexByte(SubSeq(raw, 1, 2))
        gg == HexByte(SubSeq(raw, 3, 4))
        bb == HexByte(SubSeq(raw, 5, 6))
        parsed == rr.ok /\ gg.ok /\ bb.ok
        r == IF parsed THEN rr.n ELSE 20
        g == IF parsed THEN gg.n ELSE 130
        b == IF parsed THEN bb.n ELSE 200
        \* lum > 0.62 with lum = (0.2126 r + 0.7152 g + 0.0722 b) / 255
        bright == 2126 * r + 7152 * g + 722 * b > 1581000
    IN [r |-> r, g |-> g, b |-> b, alpha |-> 88,
        text |-> IF bright THEN "#111111" ELSE "#ffffff"]

\* ---- WallpaperService: construction and setters

\* the section _ensure_defaults leaves
_ensure_defaults(section) ==
    LET s1 == SetDefault(section, "source", "custom")
        s2 == SetDefault(s1, "fill_mode", "zoom-fill")
        s3 == SetDefault(s2, "view_mode", "grid")
        s4 == SetDefault(s3, "custom_dirs",
                         DirList(<<DirStr(library_dir), DirStr(colorized_dir)>>))
        s5 == SetDefault(s4, "sort_mode", "name_asc")
        s6 == SetDefault(s5, "thumb_size", NumV("int", THUMB_SIZE_DEFAULT, << >>))
        s7 == SetDefault(s6, "colorized_tag_color", DEFAULT_BADGE)
        s8 == SetDefault(s7, "colorized_badge_color", DEFAULT_BADGE)
        s9 == SetDefault(s8, "name_overrides", JDict(EmptyDict))
        dirs == IF s9["custom_dirs"].islist THEN s9["custom_dirs"].items ELSE << >>
        withColorized == IF InList(DirStr(colorized_dir), dirs) THEN dirs
                         ELSE Append(dirs, DirStr(colorized_dir))
    IN Put(s9, "custom_dirs", DirList(withColorized))

Getters == <<get_source, get_fill_mode, get_view_mode, get_sort_mode>>

\* a setter: the section is changed in memory, then SettingsStore.save runs;
\* an exception of the save propagates to the caller
SettingsCall(op, arg, section, outcome) ==
    /\ running
    /\ calls < MaxCalls
    /\ outcome # OK => saveFailures < MaxSaveFailures
    /\ data' = Put(data, "wallpapers", JDict(section))
    /\ settings_file' = SettingsFileAfter(settings_file, data', outcome)
    /\ lastSaved' = IF outcome = OK THEN JDict(data') ELSE lastSaved
    /\ saveFailures' = IF outcome = OK THEN saveFailures ELSE saveFailures + 1
    /\ lastCall' = [op |-> op, arg |-> arg, before |-> Getters,
                    raised |-> outcome # OK]
    /\ calls' = calls + 1
    /\ UNCHANGED running

set_source_always_system(source, outcome) ==
    SettingsCall("set_source", source,
                 Put(get_state, "source", "system"), outcome)

set_source(source, outcome) ==
    SettingsCall("set_source", source,
                 Put(get_state, "source",
                     IF source = "system" THEN "system" ELSE "custom"), outcome)

set_fill_mode(mode, outcome) ==
    SettingsCall("set_fill_mode", mode,
                 Put(get_state, "fill_mode",
                     IF InList(mode, FILL_MODES) THEN mode ELSE "zoom-fill"), outcome)

set_view_mode(mode, outcome) ==
    SettingsCall("set_view_mode", mode,
                 Put(get_state, "view_mode",
                     IF mode = "list" THEN "list" ELSE "grid"), outcome)

set_sort_mode(mode, outcome) ==
    SettingsCall("set_sort_mode", mode,
                 Put(get_state, "sort_mode",
                     IF InList(mode, SORT_MODES) THEN mode ELSE "name_asc"), outcome)

set_thumb_size(size, outcome) ==
    LET parsed == IF PyInt(size).ok THEN PyInt(size).n ELSE THUMB_SIZE_DEFAULT
    IN SettingsCall("set_thumb_size", size,
                    Put(get_state, "thumb_size", NumV("int", ClampThumb(parsed), << >>)), outcome)

set_custom_dir(folder, outcome) ==
    LET p == expanduser(PathOf(folder))
        dirs == IF p = "/app/loop" \/ resolve(p) # resolve(colorized_dir)
                THEN <<DirStr(p), DirStr(colorized_dir)>>
                ELSE <<DirStr(p)>>
    IN SettingsCall("set_custom_dir", folder,
                    Put(Put(get_state, "custom_dirs", DirList(dirs)),
                        "source", "custom"), outcome)

\* the caller that stores a badge colour: section["colorized_badge_color"] =
\* colour, then settings.save()
StoreBadgeColor(colour, outcome) ==
    SettingsCall("store_badge_color", colour,
                 Put(get_state, "colorized_badge_color", colour), outcome)

\* the caller that stores a custom_dirs list: state["custom_dirs"] = [..],
\* then settings.save()
StoreCustomDirs(items, outcome) ==
    SettingsCall("store_custom_dirs", items,
                 Put(get_state, "custom_dirs", DirList(items)), outcome)

\* SettingsStore.__init__ (load) and WallpaperService.__init__
\* (_ensure_defaults, which saves) on the settings file `f`
Constructed(f) ==
    Put(load(f), "wallpapers", JDict(_ensure_defaults(get_section(load(f), "wallpapers"))))

\* the application is started again; a failing save ends the construction
RestartSettings(outcome) ==
    /\ calls < MaxCalls
    /\ outcome # OK => saveFailures < MaxSaveFailures
    /\ data' = Constructed(settings_file)
    /\ settings_file' = SettingsFileAfter(settings_file, data', outcome)
    /\ lastSaved' = IF outcome = OK THEN JDict(data') ELSE lastSaved
    /\ saveFailures' = IF outcome = OK THEN saveFailures ELSE saveFailures + 1
    /\ running' = (outcome = OK)
    /\ lastCall' = [op |-> "restart", arg |-> settings_file, before |-> Getters,
                    raised |-> outcome # OK]
    /\ calls' = calls + 1

\* ---- inputs

ThumbArgs == {NumV("int", 100, << >>), NumV("int", 200, << >>), NumV("int", 420, << >>),
              NumV("float", 2507, << >>), NumV("float", -5, << >>),
              NumV("str", 0, <<"3", "0", "0">>), NumV("str", 0, <<"a", "b", "c">>),
              NumV("str", 0, <<"2", "5", "0", ".", "7">>),
              NumV("none", 0, << >>), NumV("nan", 0, << >>)}
ColourArgs == {<<"#", "F", "F", "0", "0", "0", "0">>,
               <<"#", "0", "0", "0", "0", "0", "0">>,
               <<"#", "F", "F", "F", "F", "F", "F">>,
               <<"#", "F", "F", "F">>,
               <<"#", "G", "G", "0", "0", "0", "0">>}
FolderArgs == {"/app/foo", "/usr/share/backgrounds", "/app/pic.png", "/app/gone",
               "~/pics", "/app/colorized_link", "/app/library/wallpapers/colorized/",
               "/app/loop"}
DirItemsArgs == {<<DirStr("xyz")>>, <<DirItem("float", "1.23")>>,
                 <<DirItem("none", "None")>>,
                 <<DirItem("float", "1.23"), DirItem("none", "None")>>,
                 <<DirStr("/app/foo")>>, << >>}

\* the settings.json found when the application is first started
StartFiles ==
    {Absent, Truncated, Complete(JOther),
     Complete(JDict([x \in {"wallpapers"} |-> JOther]))}
    \cup {Complete(JDict([x \in {"wallpapers"} |-> JDict(s)])) : s \in {
     EmptyDict,
     [x \in {"thumb_size"} |-> NumV("int", 1000, << >>)],
     [x \in {"thumb_size"} |-> NumV("str", 0, <<"a", "b", "c">>)],
     ("fill_mode" :> "bogus" @@ "sort_mode" :> "bogus"
        @@ "source" :> "bogus" @@ "view_mode" :> "bogus"),
     [x \in {"custom_dirs"} |-> [islist |-> FALSE, items |-> << >>]],
     [x \in {"custom_dirs"} |-> DirList(<<DirStr("/app/library/wallpapers/colorized/")>>)]}}

\* the services are built on one of the settings files `start`
InitSettings(start) ==
    \E f \in start :
        /\ data = Constructed(f)
        /\ settings_file = Complete(JDict(data))
        /\ lastSaved = JDict(data)
        /\ lastCall = [op |-> "init", arg |-> f, before |-> Getters, raised |-> FALSE]
        /\ calls = 0
        /\ saveFailures = 0
        /\ running = TRUE

settingsFrame == <<paletteVars, metaVars, workerVars, serviceVars, uiVars>>

NextSettings ==
    \/ \E a \in {"custom", "system", "bogus"}, o \in SaveOutcomes \ {<<"replace_failed", 0>>} :
           set_source(a, o) /\ UNCHANGED settingsFrame
    \/ \E a \in {"zoom-fill", "centered", "auto", "invalid"}, o \in SaveOutcomes \ {<<"replace_failed", 0>>} :
           set_fill_mode(a, o) /\ UNCHANGED settingsFrame
    \/ \E a \in {"grid", "list", "oops"}, o \in SaveOutcomes \ {<<"replace_failed", 0>>} :
           set_view_mode(a, o) /\ UNCHANGED settingsFrame
    \/ \E a \in {"name_asc", "name_desc", "oldest", "x"}, o \in SaveOutcomes \ {<<"replace_failed", 0>>} :
           set_sort_mode(a, o) /\ UNCHANGED settingsFrame
    \/ \E a \in ThumbArgs, o \in SaveOutcomes \ {<<"replace_failed", 0>>} :
           set_thumb_size(a, o) /\ UNCHANGED settingsFrame
    \/ \E a \in ColourArgs, o \in SaveOutcomes \ {<<"replace_failed", 0>>} :
           StoreBadgeColor(a, o) /\ UNCHANGED settingsFrame
    \/ \E a \in FolderArgs, o \in SaveOutcomes \ {<<"replace_failed", 0>>} :
           set_custom_dir(a, o) /\ UNCHANGED settingsFrame
    \/ \E a \in DirItemsArgs, o \in SaveOutcomes \ {<<"replace_failed", 0>>} :
           StoreCustomDirs(a, o) /\ UNCHANGED settingsFrame
    \/ \E o \in SaveOutcomes \ {<<"replace_failed", 0>>} : RestartSettings(o) /\ UNCHANGED settingsFrame

----------------------------------------------------------------------------
\* The services that keep no state between calls (backend/fetch.py, ..).
\* Strings that the code takes apart are sequences of characters.

\* a <= b for two strings, by code point (the characters that occur in names)
RECURSIVE LexLeq(_, _)
LexLeq(a, b) ==
    LET abc == <<".", "0", "1", "2", "A", "B", "C", "_", "a", "b", "c", "d", "e",
                 "f", "g", "h", "i", "j", "k", "l", "m", "n", "o", "p", "q", "r",
                 "s", "t", "u", "v", "w", "x", "y", "z">>
        rank(c) == CHOOSE i \in 1..Len(abc) : abc[i] = c
    IN IF a = << >> THEN TRUE
       ELSE IF b = << >> THEN FALSE
       ELSE IF Head(a) = Head(b) THEN LexLeq(Tail(a), Tail(b))
       ELSE rank(Head(a)) < rank(Head(b))

\* FetchService._is_safe_engine_name with only its first test
_is_safe_engine_name_dots_only(engine) ==
    ~(engine = << >> \/ engine \in {<<".">>, <<".", ".">>})

\* FetchService._is_safe_engine_name
_is_safe_engine_name(engine) ==
    LET RECURSIVE name(_)
        \* Path(engine).name: the last component, trailing slashes dropped
        name(e) == IF e = << >> THEN << >>
                   ELSE IF e[Len(e)] = "/" THEN name(SubSeq(e, 1, Len(e) - 1))
                   ELSE IF \E i \in 1..Len(e) : e[i] = "/"
                        THEN SubSeq(e, 1 + CHOOSE i \in 1..Len(e) :
                                          e[i] = "/" /\ \A j \in (i + 1)..Len(e) : e[j] # "/",
                                    Len(e))
                   ELSE e
    IN IF engine = << >> \/ engine \in {<<".">>, <<".", ".">>} THEN FALSE
       ELSE IF Head(engine) = "/" THEN FALSE
       ELSE IF \E i \in 1..Len(engine) : engine[i] \in {"/", "\\"} THEN FALSE
       ELSE name(engine) = engine

\* root.iterdir() as it comes
unsorted(entries) == entries

\* sorted(root.iterdir(), key = lambda item: item.name.lower()): a stable sort
sorted_by_lower_name(entries) ==
    LET RECURSIVE insert(_, _)
        insert(sorted, x) ==
            IF sorted = << >> THEN <<x>>
            ELSE IF LexLeq(Lower(sorted[Len(sorted)].name), Lower(x.name))
                 THEN Append(sorted, x)
                 ELSE Append(insert(SubSeq(sorted, 1, Len(sorted) - 1), x),
                             sorted[Len(sorted)])
        RECURSIVE sort(_, _)
        sort(todo, sorted) ==
            IF todo = << >> THEN sorted ELSE sort(Tail(todo), insert(sorted, Head(todo)))
    IN sort(entries, << >>)

\* the loop of FetchService.list_presets over the sorted paths: the presets
\* [engine, name, path], a path being <<engine, file name>> below library/fetch
collect_presets(engine, paths) ==
    LET fastfetch == <<"f", "a", "s", "t", "f", "e", "t", "c", "h">>
        exts == IF engine = fastfetch
                THEN {<<".", "j", "s", "o", "n">>, <<".", "j", "s", "o", "n", "c">>}
                ELSE {<<".", "c", "o", "n", "f">>}
        \* PurePath.suffix and .stem: split at the last dot of the name, unless
        \* that dot starts or ends the name
        last(n) == IF \E i \in 1..Len(n) : n[i] = "."
                   THEN CHOOSE i \in 1..Len(n) :
                            n[i] = "." /\ \A j \in (i + 1)..Len(n) : n[j] # "."
                   ELSE 0
        dot(n) == IF 1 < last(n) /\ last(n) < Len(n) THEN last(n) ELSE 0
        suffix(n) == IF dot(n) = 0 THEN << >> ELSE SubSeq(n, dot(n), Len(n))
        stem(n) == IF dot(n) = 0 THEN n ELSE SubSeq(n, 1, dot(n) - 1)
        RECURSIVE loop(_, _)
        loop(todo, presets) ==
            IF todo = << >> THEN presets
            ELSE LET path == Head(todo)
                 IN \* is_file() is false or raises OSError: continue
                    IF path.kind # "file" THEN loop(Tail(todo), presets)
                    ELSE IF Lower(suffix(path.name)) \notin exts
                         THEN loop(Tail(todo), presets)
                    ELSE loop(Tail(todo),
                              Append(presets, [engine |-> engine, name |-> stem(path.name),
                                               path |-> <<engine, path.name>>]))
    IN loop(paths, << >>)

\* FetchService.list_presets without its two "except OSError" handlers
list_presets_unguarded(engine, fs) ==
    LET root == fs[engine]
    IN IF ~_is_safe_engine_name(engine) \/ ~root.isdir
       THEN [raised |-> FALSE, presets |-> << >>]
       ELSE IF root.raises \/ \E i \in 1..Len(root.entries) : root.entries[i].kind = "oserror"
            THEN [raised |-> TRUE, presets |-> << >>]
       ELSE [raised |-> FALSE,
             presets |-> collect_presets(engine, sorted_by_lower_name(root.entries))]

\* FetchService.list_presets on the file system fs: what it returns, and
\* whether an exception left it
list_presets(engine, fs) ==
    LET root == fs[engine]
    IN IF ~_is_safe_engine_name(engine) THEN [raised |-> FALSE, presets |-> << >>]
       ELSE IF ~root.isdir THEN [raised |-> FALSE, presets |-> << >>]
       ELSE IF root.raises THEN [raised |-> FALSE, presets |-> << >>]
       ELSE [raised |-> FALSE,
             presets |-> collect_presets(engine, sorted_by_lower_name(root.entries))]

\* a caller lists the presets of an engine
ListPresets(engine) ==
    /\ service = "fetch"
    /\ fetchRet' = [called |-> TRUE, engine |-> engine,
                    raised |-> list_presets(engine, fetchFs).raised,
                    presets |-> list_presets(engine, fetchFs).presets]
    /\ UNCHANGED <<service, fetchFs, themeCss, previewRet, rendererExists, outFile, tmpFile,
                   renderRet, classified, barVars>>

\* GtkThemeService._theme_signature when the stat of the CSS file fails
_theme_signature_no_stat(theme, css) ==
    <<"/", "t", "/">> \o theme \o <<"/", "g", "t", "k", ".", "c", "s", "s">> \o <<":">> \o theme

\* GtkThemeService._theme_signature of the theme called `theme`, whose CSS
\* file /t/<theme>/gtk.css has the stat `css`
_theme_signature(theme, css) ==
    LET css_path == <<"/", "t", "/">> \o theme \o <<"/", "g", "t", "k", ".", "c", "s", "s">>
        digits == <<"0", "1", "2", "3", "4", "5", "6", "7", "8", "9">>
        RECURSIVE str(_)
        str(n) == IF n < 10 THEN <<digits[n + 1]>> ELSE str(n \div 10) \o <<digits[(n % 10) + 1]>>
    IN IF css.exists
       THEN css_path \o <<":">> \o str(css.mtime_ns) \o <<":">> \o str(css.size)
       ELSE css_path \o <<":">> \o theme

\* GtkThemeService.preview_cache_path: [dir, name] of the cached preview.
\* hashlib.sha1(key).hexdigest()[:20] is stood for by a polynomial hash of the
\* key's characters (h' = 31 h + c modulo 2^16, three characters at a step),
\* written as four hexadecimal digits.
preview_cache_path(theme, variant, preview_size, css) ==
    LET digits == <<"0", "1", "2", "3", "4", "5", "6", "7", "8", "9">>
        RECURSIVE str(_)
        str(n) == IF n < 10 THEN <<digits[n + 1]>> ELSE str(n \div 10) \o <<digits[(n % 10) + 1]>>
        key == <<"g", "t", "k", "-", "p", "r", "e", "v", "i", "e", "w", "-", "v", "1", "|">>
               \o theme \o <<"|">> \o variant \o <<"|">>
               \o str(preview_size[1]) \o <<"x">> \o str(preview_size[2]) \o <<"|">>
               \o _theme_signature(theme, css)
        chars == <<" ", "!", "-", ".", "/", "0", "1", "2", "3", "4", "5", "6", "7", "8", "9",
                   ":", "A", "B", "C", "D", "E", "F", "G", "H", "I", "J", "K", "L", "M", "N",
                   "O", "P", "Q", "R", "S", "T", "U", "V", "W", "X", "Y", "Z", "_", "a", "b",
                   "c", "d", "e", "f", "g", "h", "i", "j", "k", "l", "m", "n", "o", "p", "q",
                   "r", "s", "t", "u", "v", "w", "x", "y", "z", "|">>
        ord(c) == CHOOSE i \in 1..Len(chars) : chars[i] = c
        RECURSIVE hash(_)
        hash(n) == IF n = 0 THEN 7
                   ELSE IF n < 3 THEN (hash(n - 1) * 31 + ord(key[n])) % 65536
                   ELSE (hash(n - 3) * 29791 + ord(key[n - 2]) * 961
                         + ord(key[n - 1]) * 31 + ord(key[n])) % 65536
        hex == digits \o <<"a", "b", "c", "d", "e", "f">>
        RECURSIVE hexdigest(_, _)
        hexdigest(h, n) == IF n = 0 THEN << >>
                           ELSE hexdigest(h \div 16, n - 1) \o <<hex[(h % 16) + 1]>>
        \* _preview_cache_slug: name[:48] with every character that is not a
        \* letter, a digit, "-" or "_" replaced by "_"
        keep(c) == c \in {chars[i] : i \in {3} \cup 6..15 \cup 17..68}
        short == SubSeq(theme, 1, Min(48, Len(theme)))
        slug == [i \in 1..Len(short) |-> IF keep(short[i]) THEN short[i] ELSE "_"]
    IN [dir |-> <<"cache", "gtk_previews">>,
        name |-> slug \o <<"-">> \o variant \o <<"-">> \o hexdigest(hash(Len(key)), 4)
                 \o <<".", "p", "n", "g">>]

\* the section asks where the preview of a theme is cached
PreviewCachePath(theme, variant, preview_size) ==
    /\ service = "preview"
    /\ previewRet' = (IF previewRet = << >> THEN << >> ELSE <<previewRet[Len(previewRet)]>>)
                     \o <<[theme |-> theme, variant |-> variant, size |-> preview_size,
                           css |-> themeCss[theme],
                           sig |-> _theme_signature(theme, themeCss[theme]),
                           path |-> preview_cache_path(theme, variant, preview_size,
                                                       themeCss[theme])]>>
    /\ UNCHANGED <<service, fetchFs, fetchRet, themeCss, rendererExists, outFile, tmpFile,
                   renderRet, classified, barVars>>

\* the theme's CSS file is rewritten, installed or removed
TouchThemeCss(theme, css) ==
    /\ service = "preview"
    /\ themeCss[theme] # css
    /\ themeCss' = [themeCss EXCEPT ![theme] = css]
    /\ UNCHANGED <<service, fetchFs, fetchRet, previewRet, rendererExists, outFile, tmpFile,
                   renderRet, classified, barVars>>

\* the file is left where it is
left_in_place(tmp) == tmp

\* "if tmp_path.exists(): tmp_path.unlink()" of render_preview_to_cache: what
\* is at tmp_path afterwards
unlink_if_exists(tmp) == IF tmp # "none" THEN "none" ELSE tmp

\* GtkThemeService.render_preview_to_cache.  `helper` is what the renderer
\* process did: "saved" (exit 0 after writing the whole file), "failed"
\* (non-zero exit, nothing written), "failed_partial" (non-zero exit, file
\* partly written), "timeout" (killed after 22 s, file partly written) and
\* "not_started" (subprocess.run raised).  The helper exits 0 only after it
\* saved.  replace_fails: tmp_path.replace(out_path) raises.
RenderPreviewToCache(helper, replace_fails) ==
    LET tmp_written == CASE helper = "saved" -> "complete"
                         [] helper \in {"failed_partial", "timeout"} -> "partial"
                         [] OTHER -> tmpFile
        raised == helper \in {"timeout", "not_started"}
        returncode == IF helper = "saved" THEN 0 ELSE 2
        result ==
            IF ~rendererExists
            THEN [ok |-> FALSE, out |-> outFile, tmp |-> tmpFile]
            ELSE IF raised
            THEN [ok |-> FALSE, out |-> outFile, tmp |-> unlink_if_exists(tmp_written)]
            ELSE IF returncode # 0 \/ tmp_written = "none"
            THEN [ok |-> FALSE, out |-> outFile, tmp |-> unlink_if_exists(tmp_written)]
            ELSE IF replace_fails
            THEN [ok |-> FALSE, out |-> outFile, tmp |-> unlink_if_exists(tmp_written)]
            ELSE [ok |-> TRUE, out |-> tmp_written, tmp |-> "none"]
    IN /\ service = "render"
       /\ outFile' = result.out
       /\ tmpFile' = result.tmp
       /\ renderRet' = [called |-> TRUE, ok |-> result.ok, helper |-> helper,
                        ran |-> rendererExists, out_before |-> outFile,
                        tmp_before |-> tmpFile]
       /\ UNCHANGED <<service, fetchFs, fetchRet, themeCss, previewRet, rendererExists,
                      classified, barVars>>

\* get_theme_metadata(name, css_path) on a cache miss, css being the text of
\* the CSS file
ClassifyTheme(name, css) ==
    /\ service = "classify"
    /\ classified' = [called |-> TRUE, name |-> name, css |-> css,
                      meta |-> ComputeMeta(name, css)]
    /\ UNCHANGED <<service, fetchFs, fetchRet, themeCss, previewRet, rendererExists,
                   outFile, tmpFile, renderRet, barVars>>

\* the folders searched user first
_search_dirs_user_first(folders) ==
    LET existing == SelectSeq(folders, LAMBDA d : d.exists)
    IN [i \in 1..Len(existing) |-> existing[Len(existing) + 1 - i]]

\* [p for p in self.system_dirs + self.user_dirs if p.exists()]
_search_dirs(folders) == SelectSeq(folders, LAMBDA d : d.exists)

\* list_themes of GtkThemeService ("gtk") and WindowThemeService ("window"),
\* _list_themes of InterfaceThemeService ("icon", "cursor"): the entries
\* [name, path] found in the folders, a later folder's entry replacing an
\* earlier one of the same name, sorted by lower-cased name.  "gtk-3.0/gtk.css"
\* stands for the style sheet that _resolve_theme_css_path finds; an
\* index.theme gives no Name, so that display_name is the folder's name.  The
\* colours and type of a GTK entry, and the metadata cache that list_themes
\* refreshes for them, are those of ComputeMeta.
list_themes(svc, folders) ==
    LET valid(p) ==
            /\ p.kind = "dir"
            /\ CASE svc = "gtk" -> "gtk-3.0/gtk.css" \in p.has
                 [] svc = "window" -> "openbox-3" \in p.has
                 [] svc = "icon" -> "index.theme" \in p.has
                 [] svc = "cursor" -> {"index.theme", "cursors"} \subseteq p.has
        \* found[name] = entry: a dict keeps the place of the first insertion
        store(found, entry) ==
            IF \E i \in 1..Len(found) : found[i].name = entry.name
            THEN [i \in 1..Len(found) |-> IF found[i].name = entry.name THEN entry
                                          ELSE found[i]]
            ELSE Append(found, entry)
        RECURSIVE entries(_, _, _)
        entries(folder, todo, found) ==
            IF todo = << >> THEN found
            ELSE entries(folder, Tail(todo),
                         IF valid(Head(todo))
                         THEN store(found, [name |-> Head(todo).name,
                                            path |-> <<folder.path, Head(todo).name>>])
                         ELSE found)
        RECURSIVE scan(_, _)
        scan(todo, found) ==
            IF todo = << >> THEN found
            ELSE scan(Tail(todo),
                      IF Head(todo).raises THEN found
                      ELSE entries(Head(todo), Head(todo).entries, found))
    IN sorted_by_lower_name(scan(_search_dirs(folders), << >>))

\* GtkThemeService.apply_theme without the test against the theme list
ApplyGtkThemeUnchecked(theme_name, outcome) ==
    /\ service = "apply"
    /\ gsettings' = IF outcome = "ok" THEN [gsettings EXCEPT !["gtk-theme"] = theme_name]
                    ELSE gsettings
    /\ applyRet' = [called |-> TRUE, svc |-> "gtk", name |-> theme_name,
                    ok |-> outcome = "ok",
                    msg |-> IF outcome = "ok" THEN "Applied GTK theme"
                            ELSE "Failed to apply GTK theme",
                    ran_set |-> TRUE, wrote_rc |-> FALSE, reconfigured |-> FALSE,
                    before |-> <<gsettings, rcXml>>,
                    listed |-> list_themes("gtk", themeDirs)]
    /\ UNCHANGED <<service, fetchFs, fetchRet, themeCss, previewRet, rendererExists,
                   outFile, tmpFile, renderRet, classified,
                   barTarget, barBackups, barClock, barHeld, barInstalled, themeDirs, rcXml>>

\* GtkThemeService.apply_theme(theme_name); outcome: "gsettings set" exits
\* with 0 ("ok"), exits with another status ("failed") or cannot be run
\* ("raised")
ApplyGtkTheme(theme_name, outcome) ==
    LET listed == list_themes("gtk", themeDirs)
        found == \E i \in 1..Len(listed) : listed[i].name = theme_name
        base == [called |-> TRUE, svc |-> "gtk", name |-> theme_name, ok |-> FALSE,
                 msg |-> "Theme not found", ran_set |-> FALSE, wrote_rc |-> FALSE,
                 reconfigured |-> FALSE, before |-> <<gsettings, rcXml>>,
                 listed |-> listed]
    IN /\ service = "apply"
       /\ IF ~found
          THEN /\ outcome = "ok"
               /\ applyRet' = base
               /\ UNCHANGED gsettings
          ELSE /\ gsettings' = IF outcome = "ok"
                               THEN [gsettings EXCEPT !["gtk-theme"] = theme_name]
                               ELSE gsettings
               /\ applyRet' = [base EXCEPT !.ok = (outcome = "ok"),
                                           !.msg = IF outcome = "ok" THEN "Applied GTK theme"
                                                   ELSE "Failed to apply GTK theme",
                                           !.ran_set = (outcome # "raised")]
       /\ UNCHANGED <<service, fetchFs, fetchRet, themeCss, previewRet, rendererExists,
                      outFile, tmpFile, renderRet, classified,
                      barTarget, barBackups, barClock, barHeld, barInstalled, themeDirs, rcXml>>

\* InterfaceThemeService.apply_icon_theme (key "icon-theme") and
\* apply_cursor_theme (key "cursor-theme"), with _gsettings_set
ApplyInterfaceTheme(key, theme_name, outcome) ==
    LET svc == IF key = "icon-theme" THEN "icon" ELSE "cursor"
        listed == list_themes(svc, themeDirs)
        found == \E i \in 1..Len(listed) : listed[i].name = theme_name
        base == [called |-> TRUE, svc |-> svc, name |-> theme_name, ok |-> FALSE,
                 msg |-> IF svc = "icon" THEN "Icon theme not found"
                         ELSE "Cursor theme not found",
                 ran_set |-> FALSE, wrote_rc |-> FALSE,
                 reconfigured |-> FALSE, before |-> <<gsettings, rcXml>>,
                 listed |-> listed]
    IN /\ service = "apply"
       /\ IF ~found
          THEN /\ outcome = "ok"
               /\ applyRet' = base
               /\ UNCHANGED gsettings
          ELSE /\ gsettings' = IF outcome = "ok" THEN [gsettings EXCEPT ![key] = theme_name]
                               ELSE gsettings
               /\ applyRet' = [base EXCEPT !.ok = (outcome = "ok"),
                                           !.msg = IF outcome = "ok"
                                                   THEN IF svc = "icon" THEN "Applied icon theme"
                                                        ELSE "Applied cursor theme"
                                                   ELSE IF svc = "icon"
                                                        THEN "Failed to apply icon theme"
                                                        ELSE "Failed to apply cursor theme",
                                           !.ran_set = (outcome # "raised")]
       /\ UNCHANGED <<service, fetchFs, fetchRet, themeCss, previewRet, rendererExists,
                      outFile, tmpFile, renderRet, classified,
                      barTarget, barBackups, barClock, barHeld, barInstalled, themeDirs, rcXml>>

\* WindowThemeService.apply_theme(theme_name); outcome: all steps succeed
\* ("ok"), ET.parse raises, tree.write raises before or after it emptied the
\* file ("open_raises", "write_raises"), or "openbox --reconfigure" cannot be
\* run ("reconfigure_raises")
ApplyWindowTheme(theme_name, outcome) ==
    LET listed == list_themes("window", themeDirs)
        found == \E i \in 1..Len(listed) : listed[i].name = theme_name
        base == [called |-> TRUE, svc |-> "window", name |-> theme_name, ok |-> FALSE,
                 msg |-> "Openbox configuration file not found.", ran_set |-> FALSE,
                 wrote_rc |-> FALSE, reconfigured |-> FALSE,
                 before |-> <<gsettings, rcXml>>, listed |-> << >>]
    IN /\ service = "apply"
       /\ IF ~rcXml.exists
          THEN /\ outcome = "ok"
               /\ applyRet' = base
               /\ UNCHANGED rcXml
          ELSE IF ~found
          THEN /\ outcome = "ok"
               /\ applyRet' = [base EXCEPT !.msg = "Theme not found", !.listed = listed]
               /\ UNCHANGED rcXml
          ELSE IF outcome = "parse_raises" \/ ~rcXml.intact
          THEN /\ outcome \in {"ok", "parse_raises"}
               /\ ~rcXml.intact => outcome = "parse_raises"
               /\ applyRet' = [base EXCEPT !.msg = "Failed to apply theme", !.listed = listed]
               /\ UNCHANGED rcXml
          ELSE IF ~rcXml.node
          THEN /\ outcome = "ok"
               /\ applyRet' = [base EXCEPT !.msg = "Could not find <theme><name> in rc.xml",
                                           !.listed = listed]
               /\ UNCHANGED rcXml
          ELSE IF outcome = "open_raises"
          THEN /\ applyRet' = [base EXCEPT !.msg = "Failed to apply theme", !.listed = listed]
               /\ UNCHANGED rcXml
          ELSE IF outcome = "write_raises"
          THEN /\ applyRet' = [base EXCEPT !.msg = "Failed to apply theme", !.listed = listed,
                                           !.wrote_rc = TRUE]
               /\ rcXml' = [rcXml EXCEPT !.intact = FALSE]
          ELSE /\ rcXml' = [rcXml EXCEPT !.name = theme_name]
               /\ applyRet' = [base EXCEPT !.ok = (outcome = "ok"),
                                           !.msg = IF outcome = "ok" THEN "Applied window theme"
                                                   ELSE "Failed to apply theme",
                                           !.listed = listed, !.wrote_rc = TRUE,
                                           !.reconfigured = (outcome = "ok")]
       /\ UNCHANGED <<service, fetchFs, fetchRet, themeCss, previewRet, rendererExists,
                      outFile, tmpFile, renderRet, classified,
                      barTarget, barBackups, barClock, barHeld, barInstalled, themeDirs,
                      gsettings>>

MaxClock == 1

\* _install_bar_preset(target) with the preset file present: _backup_file
\* copies an existing config to "<name>.bak-<time.strftime(%Y%m%d-%H%M%S)>",
\* then the preset is copied over the config.  copy_fails: the backup copy
\* raises and the install is given up.
InstallBarPreset(copy_fails) ==
    /\ service = "bar"
    /\ IF copy_fails
       THEN /\ barTarget # "none"
            /\ UNCHANGED barVars
       ELSE /\ barBackups' = IF barTarget = "none" THEN barBackups
                             ELSE Put(barBackups, barClock, barTarget)
            /\ barTarget' = "preset"
            /\ barHeld' = IF barTarget = "none" THEN barHeld ELSE barHeld \cup {barTarget}
            /\ barInstalled' = TRUE
            /\ UNCHANGED <<barClock, themeDirs, gsettings, rcXml, applyRet>>
    /\ UNCHANGED <<service, fetchFs, fetchRet, themeCss, previewRet, rendererExists,
                   outFile, tmpFile, renderRet, classified>>

\* a second passes
TickClock ==
    /\ service = "bar"
    /\ barClock < MaxClock
    /\ barClock' = barClock + 1
    /\ UNCHANGED <<barTarget, barBackups, barHeld, barInstalled,
                   themeDirs, gsettings, rcXml, applyRet>>
    /\ UNCHANGED <<service, fetchFs, fetchRet, themeCss, previewRet, rendererExists,
                   outFile, tmpFile, renderRet, classified>>

----------------------------------------------------------------------------
\* WallpaperNameStore (backend/wallpaper_names.py).  A name is a NumV: a string
\* ("str", l its characters) or None ("none"); a stored override can be any
\* JSON value.  The key of a path is Resolve(path).

\* " ".join(value.split()).strip() of a string, "" for a value that is no string
cleaned(value) ==
    LET l == value.l
        ws == {" ", "\t", "\n"}
        \* the characters of the words, and the first blank after a word that
        \* another word follows
        kept == {i \in 1..Len(l) :
                    \/ l[i] \notin ws
                    \/ /\ i > 1
                       /\ l[i - 1] \notin ws
                       /\ \E j \in (i + 1)..Len(l) : l[j] \notin ws}
        at(k) == CHOOSE i \in kept : Cardinality({j \in kept : j <= i}) = k
    IN IF value.k # "str" THEN << >>
       ELSE [k \in 1..Cardinality(kept) |-> IF l[at(k)] \in ws THEN " " ELSE l[at(k)]]

\* WallpaperNameStore._overrides on the settings `d`: a value of
\* name_overrides that is no dict is replaced by {}
_overrides(d) ==
    LET section == get_section(d, "wallpapers")
    IN IF "name_overrides" \in DOMAIN section /\ section["name_overrides"].isdict
       THEN section["name_overrides"].d
       ELSE EmptyDict

\* WallpaperNameStore.get(path, fallback) on the settings `d`
name_store_get(d, path, fallback) ==
    LET key == Resolve(path)
    IN IF key \in DOMAIN _overrides(d) /\ cleaned(_overrides(d)[key]) # << >>
       THEN cleaned(_overrides(d)[key])
       ELSE fallback

\* WallpaperNameStore.set that keeps the override when the name is empty
set_display_name_keeps_empty(path, name, outcome) ==
    /\ service = "names"
    /\ UNCHANGED ui
    /\ nameBefore' = [p \in DOMAIN nameBefore |-> name_store_get(data, p, <<"?">>)]
    /\ SettingsCall("set_display_name", <<path, name>>,
                    Put(get_state, "name_overrides",
                        JDict(IF cleaned(name) # << >>
                              THEN Put(_overrides(data), Resolve(path),
                                       NumV("str", 0, cleaned(name)))
                              ELSE _overrides(data))),
                    outcome)

\* WallpaperService.set_display_name(path, name): WallpaperNameStore.set, which
\* ends with SettingsStore.save
set_display_name(path, name, outcome) ==
    /\ service = "names"
    /\ UNCHANGED ui
    /\ nameBefore' = [p \in DOMAIN nameBefore |-> name_store_get(data, p, <<"?">>)]
    /\ SettingsCall("set_display_name", <<path, name>>,
                    Put(get_state, "name_overrides",
                        JDict(IF cleaned(name) # << >>
                              THEN Put(_overrides(data), Resolve(path),
                                       NumV("str", 0, cleaned(name)))
                              ELSE [k \in DOMAIN _overrides(data) \ {Resolve(path)} |->
                                       _overrides(data)[k]])),
                    outcome)

\* WallpaperService.clear_display_name(path): WallpaperNameStore.remove, which
\* saves only when it has removed an override
clear_display_name(path, outcome) ==
    /\ service = "names"
    /\ UNCHANGED ui
    /\ nameBefore' = [p \in DOMAIN nameBefore |-> name_store_get(data, p, <<"?">>)]
    /\ IF Resolve(path) \in DOMAIN _overrides(data)
       THEN SettingsCall("clear_display_name", <<path, NumV("none", 0, << >>)>>,
                         Put(get_state, "name_overrides",
                             JDict([k \in DOMAIN _overrides(data) \ {Resolve(path)} |->
                                       _overrides(data)[k]])),
                         outcome)
       ELSE /\ running
            /\ calls < MaxCalls
            /\ outcome = OK
            /\ data' = Put(data, "wallpapers",
                           JDict(Put(get_state, "name_overrides", JDict(_overrides(data)))))
            /\ lastCall' = [op |-> "clear_display_name",
                            arg |-> <<path, NumV("none", 0, << >>)>>,
                            before |-> Getters, raised |-> FALSE]
            /\ calls' = calls + 1
            /\ UNCHANGED <<settings_file, lastSaved, saveFailures, running>>

----------------------------------------------------------------------------
\* The window (main.py): top mode, sidebar, content stack, bar-preview timer.
\* The handlers are functions from the window `u` to the window they leave.

\* ArchCrafter2App._ensure_bar_preview_refresh(active); GLib.timeout_add_seconds
\* gives the smallest id not in use
_ensure_bar_preview_refresh(u, active) ==
    IF active
    THEN IF u._bar_preview_refresh_source = 0
         THEN LET id == CHOOSE n \in 1..(Cardinality(u.sources) + 1) : n \notin u.sources
              IN [u EXCEPT !._bar_preview_refresh_source = id, !.sources = @ \cup {id}]
         ELSE u
    ELSE IF u._bar_preview_refresh_source # 0
         THEN [u EXCEPT !.sources = @ \ {u._bar_preview_refresh_source},
                        !._bar_preview_refresh_source = 0]
         ELSE u

\* ArchCrafter2App.on_sidebar_row_selected(row), the handler of sidebar_list's
\* "row-selected"; row is "none" when the selection was removed.  ROW_TO_PAGE
\* maps "row_<id>" to the page of that id; the settings page has no row.
on_sidebar_row_selected(u, row) ==
    LET page_name == CASE row = "row_wallpapers" -> "wallpapers"
                       [] row = "row_panels" -> "panels"
                       [] row = "row_menu" -> "menu"
                       [] OTHER -> ""
        shown == [u EXCEPT !._last_sidebar_row_name = row,
                           !._last_non_settings_sidebar_row_name = row,
                           !._last_non_settings_sidebar_page_name = page_name,
                           !.page = page_name]
    IN IF row = "none" \/ page_name = "" THEN u
       ELSE _ensure_bar_preview_refresh(shown, page_name = "panels")

\* ArchCrafter2App._select_sidebar_row_by_name: Gtk.ListBox.select_row emits
\* "row-selected" unless the row is the selected one already
_select_sidebar_row_by_name(u, row_name) ==
    IF row_name \notin {"row_wallpapers", "row_panels", "row_menu"} \/ u.selected = row_name
    THEN u
    ELSE on_sidebar_row_selected([u EXCEPT !.selected = row_name], row_name)

\* apply_top_mode that keeps any mode it is given
apply_top_mode_unchecked(u, mode, save_raises) ==
    LET m == Lower(Strip(mode))
        name == CASE m = <<"b", "u", "i", "l", "d", "e", "r">> -> "builder"
                  [] m = <<"p", "r", "e", "s", "e", "t", "s">> -> "presets"
                  [] m = <<"m", "i", "x", "e", "r">> -> "mixer"
                  [] OTHER -> "other"
        u1 == [u EXCEPT !.active_top_mode = name,
                        !.stack_visible = (name \notin {"builder", "presets"})]
        u2 == IF name # "mixer" THEN _ensure_bar_preview_refresh(u1, FALSE)
              ELSE _ensure_bar_preview_refresh(u1, u1.page = "panels")
    IN [u2 EXCEPT !.top_mode = name,
                  !.file_top_mode = IF u2.top_mode # name /\ ~save_raises THEN name ELSE @,
                  !.save_failed = @ \/ (u2.top_mode # name /\ save_raises),
                  !.last = "apply_top_mode"]

\* ArchCrafter2App.apply_top_mode(mode): mode is a string (its characters; ""
\* stands for every falsy argument); save_raises: the settings.save() it makes
\* when ui.top_mode differs raises
apply_top_mode(u, mode, save_raises) ==
    LET m == Lower(Strip(IF mode = << >> THEN <<"m", "i", "x", "e", "r">> ELSE mode))
        name == CASE m = <<"b", "u", "i", "l", "d", "e", "r">> -> "builder"
                  [] m = <<"p", "r", "e", "s", "e", "t", "s">> -> "presets"
                  [] OTHER -> "mixer"
        u1 == [u EXCEPT !.active_top_mode = name]
        \* the mixer sidebar gets a selection when it has none
        u2 == IF name = "mixer" /\ u1.selected = "none"
              THEN _select_sidebar_row_by_name(u1, u1._last_sidebar_row_name)
              ELSE u1
        u3 == [u2 EXCEPT !.stack_visible = (name \notin {"builder", "presets"})]
        u4 == IF name # "mixer" THEN _ensure_bar_preview_refresh(u3, FALSE)
              ELSE _ensure_bar_preview_refresh(u3, u3.page = "panels")
    IN [u4 EXCEPT !.top_mode = name,
                  !.file_top_mode = IF u4.top_mode # name /\ ~save_raises THEN name ELSE @,
                  !.save_failed = @ \/ (u4.top_mode # name /\ save_raises),
                  !.last = "apply_top_mode"]

\* apply_top_mode is called with any argument; its callers
\* (on_top_mode_toggled, init_top_mode_bar) run with the mode's button active
ApplyTopMode(mode, save_raises) ==
    /\ service = "window"
    /\ save_raises => ui.top_mode # apply_top_mode(ui, mode, FALSE).top_mode
    /\ ui' = apply_top_mode([ui EXCEPT !.mode_btn = apply_top_mode(ui, mode, FALSE).top_mode],
                            mode, save_raises)
    /\ UNCHANGED nameBefore

\* a row of the mixer sidebar is clicked, or the selection is removed with a
\* Ctrl-click (row "none"); the mixer sidebar is shown in mixer mode only
SelectSidebarRow(row) ==
    /\ service = "window"
    /\ ui.active_top_mode = "mixer"
    /\ ui.selected # row
    /\ ui' = [on_sidebar_row_selected([ui EXCEPT !.selected = row], row)
                EXCEPT !.last = "on_sidebar_row_selected"]
    /\ UNCHANGED nameBefore

\* ArchCrafter2App.on_top_settings_clicked; mode_mixer_btn.set_active(True)
\* emits "toggled", which runs apply_top_mode("mixer"), unless the button is
\* active already
OnTopSettingsClicked(save_raises) ==
    /\ service = "window"
    /\ save_raises => ui.page # "settings" /\ ui.mode_btn # "mixer" /\ ui.top_mode # "mixer"
    /\ ui' = [(IF ui.page = "settings"
               THEN _select_sidebar_row_by_name(
                        [ui EXCEPT !.page = ui._last_non_settings_sidebar_page_name],
                        ui._last_non_settings_sidebar_row_name)
               ELSE [(IF ui.mode_btn # "mixer"
                      THEN apply_top_mode([ui EXCEPT !.mode_btn = "mixer"],
                                          <<"m", "i", "x", "e", "r">>, save_raises)
                      ELSE ui) EXCEPT !.page = "settings"])
                EXCEPT !.last = "on_top_settings_clicked"]
    /\ UNCHANGED nameBefore

\* ArchCrafter2App._on_bar_preview_refresh_timer: the 6-second timeout `id`
\* fires; returning False removes it
OnBarPreviewRefreshTimer(id) ==
    /\ service = "window"
    /\ id \in ui.sources
    /\ ui' = IF ui.active_top_mode # "mixer" \/ ui.page # "panels"
             THEN [ui EXCEPT !._bar_preview_refresh_source = 0, !.sources = @ \ {id},
                             !.last = "_on_bar_preview_refresh_timer"]
             ELSE [ui EXCEPT !.last = "_on_bar_preview_refresh_timer"]
    /\ UNCHANGED nameBefore

\* ---- the sidebar pane of the main window ----
SIDEBAR_WIDTH_MAX == 347
SIDEBAR_COLLAPSED_WIDTH == 52
SIDEBAR_DEFAULT_WIDTH == 260
\* the least width the sidebar opens to, and the width at or below which a
\* drag collapses it
SIDEBAR_OPEN_MARGIN == 24
SIDEBAR_SNAP_MARGIN == 2

RECURSIVE set_position(_, _)
RECURSIVE _apply_sidebar_toggle_state(_, _)
RECURSIVE on_main_paned_position_changed(_)

\* Gtk.Paned.set_position: "notify::position" is emitted, and its handler
\* on_main_paned_position_changed runs inside the call, when the position
\* changes
set_position(u, position) ==
    IF u.pos = position THEN u
    ELSE on_main_paned_position_changed([u EXCEPT !.pos = position])

\* _apply_sidebar_toggle_state whose closing branch leaves the pane where it is
_apply_sidebar_toggle_state_keeps_position(u, is_open) ==
    IF is_open
    THEN LET restore == Max(SIDEBAR_COLLAPSED_WIDTH + SIDEBAR_OPEN_MARGIN,
                            Min(SIDEBAR_WIDTH_MAX, u._sidebar_restore_width))
         IN set_position([u EXCEPT !._suppress_sidebar_width_save = TRUE], restore)
    ELSE [u EXCEPT !._sidebar_restore_width =
                        IF u.pos > SIDEBAR_COLLAPSED_WIDTH THEN u.pos ELSE @,
                   !._suppress_sidebar_width_save = TRUE]

\* ArchCrafter2App._apply_sidebar_toggle_state(is_open)
_apply_sidebar_toggle_state(u, is_open) ==
    IF is_open
    THEN LET restore == Max(SIDEBAR_COLLAPSED_WIDTH + SIDEBAR_OPEN_MARGIN,
                            Min(SIDEBAR_WIDTH_MAX, u._sidebar_restore_width))
         IN set_position([u EXCEPT !._suppress_sidebar_width_save = TRUE], restore)
    ELSE set_position([u EXCEPT !._sidebar_restore_width =
                                     IF u.pos > SIDEBAR_COLLAPSED_WIDTH THEN u.pos ELSE @,
                                !._suppress_sidebar_width_save = TRUE],
                      SIDEBAR_COLLAPSED_WIDTH)

\* ArchCrafter2App.on_main_paned_position_changed, the handler of the pane's
\* "notify::position"; a set_position it makes runs the handler again before
\* it goes on.  The toggle is set inactive with _sidebar_toggle_syncing set, so
\* on_sidebar_toggle_toggled returns at once.
on_main_paned_position_changed(u) ==
    LET raw_pos == u.pos
        max_width == u._sidebar_width_cap
        clamped == Max(SIDEBAR_COLLAPSED_WIDTH, Min(max_width, raw_pos))
        u1 == IF clamped # raw_pos THEN set_position(u, clamped) ELSE u
    IN IF ~u1.toggle
       THEN IF clamped # SIDEBAR_COLLAPSED_WIDTH
            THEN set_position([u1 EXCEPT !._suppress_sidebar_width_save = TRUE],
                              SIDEBAR_COLLAPSED_WIDTH)
            ELSE [u1 EXCEPT !._suppress_sidebar_width_save = FALSE]
       ELSE IF clamped <= SIDEBAR_COLLAPSED_WIDTH + SIDEBAR_SNAP_MARGIN
            THEN _apply_sidebar_toggle_state([u1 EXCEPT !.toggle = FALSE], FALSE)
            ELSE IF u1._suppress_sidebar_width_save
                 THEN [u1 EXCEPT !._sidebar_restore_width = clamped,
                                 !._suppress_sidebar_width_save = FALSE]
                 ELSE [u1 EXCEPT !._sidebar_restore_width = clamped,
                                 !._pending_sidebar_width = clamped,
                                 !._sidebar_width_save_source = TRUE]

\* ArchCrafter2App._ensure_resizable_layout and _bind_sidebar_toggle: the pane is placed
\* at the saved width before the handler is connected, then the toggle is set
\* from the width to restore; sidebar_width -1 is a missing or non-integer
\* ui.sidebar_width
_ensure_resizable_layout(u) ==
    LET sidebar_width == Max(SIDEBAR_COLLAPSED_WIDTH,
                             Min(SIDEBAR_WIDTH_MAX,
                                 IF u.sidebar_width = -1 THEN SIDEBAR_DEFAULT_WIDTH
                                 ELSE u.sidebar_width))
        start_open == sidebar_width > SIDEBAR_COLLAPSED_WIDTH + SIDEBAR_OPEN_MARGIN
    IN _apply_sidebar_toggle_state(
           [u EXCEPT !._sidebar_width_cap = SIDEBAR_WIDTH_MAX,
                     !._sidebar_restore_width = sidebar_width,
                     !.pos = Min(sidebar_width, SIDEBAR_WIDTH_MAX),
                     !.toggle = start_open],
           start_open)

\* the handle of the pane is dragged to `position`, or the pane is given it
\* when the window is resized
SetPanedPosition(position) ==
    /\ service = "sidebar"
    /\ ui.pos # position
    /\ ui' = [set_position(ui, position) EXCEPT !.last = "on_main_paned_position_changed"]
    /\ UNCHANGED nameBefore

\* the sidebar toggle is clicked: ArchCrafter2App.on_sidebar_toggle_toggled
OnSidebarToggleToggled ==
    /\ service = "sidebar"
    /\ ui' = [_apply_sidebar_toggle_state([ui EXCEPT !.toggle = ~ui.toggle], ~ui.toggle)
                EXCEPT !.last = "on_sidebar_toggle_toggled"]
    /\ UNCHANGED nameBefore

\* ArchCrafter2App._flush_sidebar_width_save, 250 ms after it was armed;
\* _pending_sidebar_width 0 is None
FlushSidebarWidthSave ==
    /\ service = "sidebar"
    /\ ui._sidebar_width_save_source
    /\ ui' = [ui EXCEPT !._sidebar_width_save_source = FALSE,
                        !.sidebar_width = IF ui._pending_sidebar_width = 0 THEN @
                                          ELSE ui._pending_sidebar_width,
                        !.last = "_flush_sidebar_width_save"]
    /\ UNCHANGED nameBefore

\* ---- the card grids and their reloads ----
\* reloads of a grid within a run
MaxReloads == 3

\* what list_wallpapers / list_themes of the grid's service returns, by name
Catalog == << <<"A", "d", "w", "a", "i", "t", "a">>, <<"A", "r", "c">> >>

\* the search texts typed into the grid's search entry
Queries == {<< >>, <<"a", "r">>, <<" ", "A", "R", "C">>}

\* the entries a reload thread keeps: those whose lowered name holds the query
Filtered(query) ==
    SelectSeq(Catalog, LAMBDA name : query = << >> \/ Contains(Lower(name), query))

\* add_theme_card that adds its card whatever the reload id is
add_theme_card_unchecked(u, cb) ==
    [u EXCEPT !.flowbox = Append(@, cb)]

\* the idle callback add_wallpaper_card / add_theme_card of a reload thread, on
\* the main loop; the one of the window-theme grid has no reload id to compare
add_theme_card(u, cb) ==
    IF u.grid # "window" /\ cb.reload_id # u.reload_id THEN u
    ELSE [u EXCEPT !.flowbox = Append(@, cb)]

\* the search entry is edited to `text` (its "changed" handler reloads), or a
\* reload is asked for with the text as it is: reload_wallpapers,
\* reload_gtk_themes, reload_icon_themes, reload_cursor_themes,
\* reload_window_themes, on the main thread.  The grid is emptied, the reload
\* id (of the grids that have one) is incremented and a thread is started.
ReloadGrid(text) ==
    /\ service = "grid"
    /\ ui.reloads < MaxReloads
    /\ LET query == Lower(Strip(text))
           reload_id == IF ui.grid = "window" THEN 0 ELSE ui.reload_id + 1
       IN ui' = [ui EXCEPT !.entry = text,
                           !.flowbox = << >>,
                           !.reload_id = reload_id,
                           !.reloads = @ + 1,
                           !.threads = @ \cup {[n |-> ui.reloads + 1, reload_id |-> reload_id,
                                                query |-> query, pc |-> "list",
                                                themes |-> << >>]},
                           !.last = "reload"]
    /\ UNCHANGED nameBefore

\* a reload thread lists and filters: the wallpaper thread reads the search
\* entry itself (_sorted_filtered_wallpapers), the others were given the
\* query; the GTK-theme thread returns here when its reload is stale
ReloadThreadList(t) ==
    /\ service = "grid"
    /\ t \in ui.threads
    /\ t.pc = "list"
    /\ LET query == IF ui.grid = "wallpapers" THEN Lower(Strip(ui.entry)) ELSE t.query
       IN ui' = [ui EXCEPT !.threads =
                     IF ui.grid = "gtk" /\ t.reload_id # ui.reload_id
                     THEN @ \ {t}
                     ELSE (@ \ {t}) \cup {[t EXCEPT !.pc = "loop", !.query = query,
                                                    !.themes = Filtered(query)]},
                           !.last = "thread"]
    /\ UNCHANGED nameBefore

\* a reload thread's loop: GLib.idle_add of the next card; the wallpaper
\* thread leaves the loop when its reload is stale; the thread ends after the
\* last entry
ReloadThreadStep(t) ==
    /\ service = "grid"
    /\ t \in ui.threads
    /\ t.pc = "loop"
    /\ ui' = IF t.themes = << >> \/ (ui.grid = "wallpapers" /\ t.reload_id # ui.reload_id)
             THEN [ui EXCEPT !.threads = @ \ {t}, !.last = "thread"]
             ELSE [ui EXCEPT !.threads = (@ \ {t}) \cup {[t EXCEPT !.themes = Tail(@)]},
                             !.idle = Append(@, [name |-> Head(t.themes), n |-> t.n,
                                                 reload_id |-> t.reload_id,
                                                 query |-> t.query]),
                             !.last = "thread"]
    /\ UNCHANGED nameBefore

\* the main loop runs the oldest idle callback
RunIdleCallback ==
    /\ service = "grid"
    /\ ui.idle # << >>
    /\ ui' = [add_theme_card([ui EXCEPT !.idle = Tail(@)], Head(ui.idle))
                EXCEPT !.last = "idle"]
    /\ UNCHANGED nameBefore

\* ---- the preview render jobs of the GTK-theme page ----
\* preview renders started within a run
MaxRenders == 3

\* _schedule_gtk_preview_render that starts a worker for every call
_schedule_gtk_preview_render_always(u, variant, out_name) ==
    LET job_key == variant \o <<":">> \o out_name
    IN [u EXCEPT !._gtk_preview_render_jobs = @ \cup {job_key},
                 !.renders = @ + 1,
                 !.threads = @ \cup {[n |-> u.renders + 1, job_key |-> job_key,
                                      tmp_path |-> out_name \o <<".", "t", "m", "p">>,
                                      pc |-> "start"]}]

\* ArchCrafter2App._schedule_gtk_preview_render, on the main thread, for the
\* preview file out_name (the name of _gtk_preview_cache_path(theme, variant)):
\* nothing is started for a job key that is in _gtk_preview_render_jobs
_schedule_gtk_preview_render(u, variant, out_name) ==
    LET job_key == variant \o <<":">> \o out_name
    IN IF job_key \in u._gtk_preview_render_jobs THEN u
       ELSE [u EXCEPT !._gtk_preview_render_jobs = @ \cup {job_key},
                      !.renders = @ + 1,
                      !.threads = @ \cup {[n |-> u.renders + 1, job_key |-> job_key,
                                           tmp_path |-> out_name \o <<".", "t", "m", "p">>,
                                           pc |-> "start"]}]

\* a card or the preview panel asks for the preview of `theme`
ScheduleGtkPreviewRender(theme, variant) ==
    /\ service = "jobs"
    /\ ui.renders < MaxRenders
    /\ ui' = [_schedule_gtk_preview_render(
                  ui, variant,
                  preview_cache_path(theme, variant,
                                     IF variant = <<"p", "a", "n", "e", "l">>
                                     THEN <<640, 420>> ELSE <<320, 150>>,
                                     themeCss[theme]).name)
                EXCEPT !.last = "_schedule_gtk_preview_render"]
    /\ UNCHANGED nameBefore

\* a step of a render worker: it starts the renderer, which writes tmp_path;
\* then _render_gtk_preview_to_cache returns `ok`, the worker calls
\* GLib.idle_add(finalize) and ends
RenderWorker(t, ok) ==
    /\ service = "jobs"
    /\ t \in ui.threads
    /\ ui' = IF t.pc = "start"
             THEN [ui EXCEPT !.threads = (@ \ {t}) \cup {[t EXCEPT !.pc = "render"]},
                             !.last = "worker"]
             ELSE [ui EXCEPT !.threads = @ \ {t},
                             !.idle = Append(@, [n |-> t.n, job_key |-> t.job_key, ok |-> ok]),
                             !.last = "worker"]
    /\ UNCHANGED nameBefore

\* the main loop runs the oldest finalize callback
FinalizeRender ==
    /\ service = "jobs"
    /\ ui.idle # << >>
    /\ ui' = [ui EXCEPT !._gtk_preview_render_jobs = @ \ {Head(ui.idle).job_key},
                        !.idle = Tail(@),
                        !.finalized = Head(ui.idle),
                        !.last = "finalize"]
    /\ UNCHANGED nameBefore

\* ---- the thumbnail width of the wallpaper grid ----
\* the range _set_wallpaper_thumb_size keeps the width in, and the step of a
\* Ctrl+scroll zoom
THUMB_WIDTH_MIN == 180
THUMB_WIDTH_MAX == 420
ZOOM_STEP == 20

\* ArchCrafter2App._set_wallpaper_thumb_size(size), called by the slider's
\* handler and by on_wallpaper_zoom_scroll; it returns at once when the
\* clamped size is the width in use
SetWallpaperThumbSize(size, outcome) ==
    LET clamped == Max(THUMB_WIDTH_MIN, Min(THUMB_WIDTH_MAX, size))
    IN /\ service = "thumb"
       /\ clamped # ui.thumb_width
       /\ ui' = [ui EXCEPT !.thumb_width = clamped, !.last = "_set_wallpaper_thumb_size"]
       /\ set_thumb_size(NumV("int", clamped, << >>), outcome)
       /\ UNCHANGED nameBefore

\* the services as built; the one of `start` is exercised.  A preset directory
\* is missing, unreadable, or holds regular files, a directory and an entry
\* whose stat raises, in iterdir order; what an unsafe engine string resolves
\* to holds a preset file
InitServices(start) ==
    LET EngineArgs ==
            {<<"f", "a", "s", "t", "f", "e", "t", "c", "h">>, <<"n", "e", "o">>,
             << >>, <<".">>, <<".", ".">>, <<".", ".", "/", "o", "u", "t">>,
             <<"n", "/", "p">>, <<"/", "o", "u", "t">>, <<"a", "\\", "b">>}
        f(n) == [name |-> n, kind |-> "file"]
        bjson == <<"B", ".", "j", "s", "o", "n">>
        ajsonc == <<"a", ".", "J", "S", "O", "N", "C">>
        cconf == <<"c", ".", "c", "o", "n", "f">>
        aconf == <<"A", "_", "1", ".", "t", "a", "r", ".", "c", "o", "n", "f">>
        hidden == <<".", "c", "o", "n", "f">>
        dir(es) == [isdir |-> TRUE, raises |-> FALSE, entries |-> es]
        nodir == [isdir |-> FALSE, raises |-> FALSE, entries |-> << >>]
        FetchListings ==
            {nodir,
             [isdir |-> TRUE, raises |-> TRUE, entries |-> <<f(cconf), f(bjson)>>],
             dir(<< >>),
             dir(<<f(cconf), f(bjson), f(ajsonc)>>),
             dir(<<f(bjson), f(aconf), f(cconf)>>),
             dir(<<f(hidden), [name |-> cconf, kind |-> "dir"], f(aconf)>>),
             dir(<<[name |-> cconf, kind |-> "oserror"], f(bjson), f(ajsonc)>>),
             dir(<<f(ajsonc), [name |-> bjson, kind |-> "oserror"], f(cconf)>>)}
    IN /\ service \in start
       /\ fetchFs \in IF service = "fetch"
                      THEN {[e \in EngineArgs |->
                                IF e = <<"f", "a", "s", "t", "f", "e", "t", "c", "h">> THEN fast
                                ELSE IF e = <<"n", "e", "o">> THEN neo
                                ELSE dir(<<f(hidden), f(cconf)>>)] :
                            fast \in FetchListings, neo \in FetchListings}
                      ELSE {[e \in EngineArgs |-> nodir]}
       /\ fetchRet = [called |-> FALSE, engine |-> << >>, raised |-> FALSE, presets |-> << >>]
       /\ themeCss \in {[t \in {<<"N", "o", "r", "d">>, <<"M", "y", " ", "T", "h">>} |->
                             IF t = <<"N", "o", "r", "d">> /\ service = "preview" THEN css
                             ELSE [exists |-> FALSE, mtime_ns |-> 0, size |-> 0]] :
                         css \in {[exists |-> FALSE, mtime_ns |-> 0, size |-> 0],
                                  [exists |-> TRUE, mtime_ns |-> 1, size |-> 23]}}
       /\ previewRet = << >>
       \* a render interrupted by the application's exit leaves its ".tmp"
       /\ rendererExists \in IF service = "render" THEN BOOLEAN ELSE {TRUE}
       /\ outFile \in IF service = "render" THEN {"none", "old"} ELSE {"none"}
       /\ tmpFile \in IF service = "render" THEN {"none", "stale"} ELSE {"none"}
       /\ renderRet = [called |-> FALSE, ok |-> FALSE, helper |-> "none", ran |-> FALSE,
                       out_before |-> "none", tmp_before |-> "none"]
       /\ classified = [called |-> FALSE, name |-> << >>, css |-> CssContents[3],
                        meta |-> ComputeMeta(<< >>, CssContents[3])]
       /\ barTarget \in IF service = "bar" THEN {"none", "mine"} ELSE {"none"}
       /\ barBackups = EmptyDict
       /\ barClock = 0
       /\ barHeld = {}
       /\ barInstalled = FALSE
       /\ themeDirs \in
             LET Nord == <<"N", "o", "r", "d">>
                 arc == <<"a", "r", "c">>
                 all == {"gtk-3.0/gtk.css", "openbox-3", "index.theme", "cursors"}
                 d(n, has) == [name |-> n, kind |-> "dir", has |-> has]
                 folder(path, es) == [path |-> path, exists |-> TRUE, raises |-> FALSE,
                                      entries |-> es]
                 none(path) == [path |-> path, exists |-> FALSE, raises |-> FALSE,
                                entries |-> << >>]
             IN IF service # "apply"
                THEN {<<none("/usr/share"), none("~/."), none("~/.local/share")>>}
                ELSE {<<folder("/usr/share", <<d(Nord, all), d(arc, {"gtk-3.0/gtk.css"})>>),
                        folder("~/.", <<d(Nord, all \ {"cursors"})>>),
                        none("~/.local/share")>>,
                      <<folder("/usr/share", <<d(arc, {"openbox-3", "index.theme"})>>),
                        [path |-> "~/.", exists |-> TRUE, raises |-> TRUE,
                         entries |-> <<d(arc, all)>>],
                        folder("~/.local/share", <<d(Nord, all)>>)>>,
                      <<folder("/usr/share", <<d(Nord, all)>>),
                        folder("~/.", <<d(Nord, {}), [name |-> arc, kind |-> "file", has |-> {}]>>),
                        folder("~/.local/share", << >>)>>,
                      <<none("/usr/share"), none("~/."), none("~/.local/share")>>}
       /\ gsettings = [k \in {"gtk-theme", "icon-theme", "cursor-theme"} |->
                          <<"A", "d", "w", "a", "i", "t", "a">>]
       /\ rcXml \in IF service # "apply"
                    THEN {[exists |-> FALSE, intact |-> TRUE, node |-> FALSE, name |-> << >>]}
                    ELSE {[exists |-> FALSE, intact |-> TRUE, node |-> FALSE, name |-> << >>],
                          [exists |-> TRUE, intact |-> TRUE, node |-> FALSE, name |-> << >>],
                          [exists |-> TRUE, intact |-> TRUE, node |-> TRUE,
                           name |-> <<"C", "l", "e", "a", "r", "l", "o", "o", "k", "s">>]}
       /\ applyRet = [called |-> FALSE, svc |-> "none", name |-> << >>, ok |-> FALSE,
                      msg |-> "", ran_set |-> FALSE, wrote_rc |-> FALSE,
                      reconfigured |-> FALSE, before |-> <<gsettings, rcXml>>,
                      listed |-> << >>]
       /\ nameBefore = [p \in {"a.png", "a_link.png", "b.png"} |-> <<"?">>]
       \* do_activate selects the first sidebar row, init_top_mode_bar applies
       \* the top mode that settings.json holds
       /\ ui \in LET built == [active_top_mode |-> "mixer", mode_btn |-> "mixer",
                               page |-> "wallpapers", stack_visible |-> TRUE,
                               selected |-> "row_wallpapers",
                               _last_sidebar_row_name |-> "row_wallpapers",
                               _last_non_settings_sidebar_row_name |-> "row_wallpapers",
                               _last_non_settings_sidebar_page_name |-> "wallpapers",
                               _bar_preview_refresh_source |-> 0, sources |-> {},
                               top_mode |-> "mixer", file_top_mode |-> "mixer",
                               save_failed |-> FALSE, last |-> "init",
                               pos |-> SIDEBAR_DEFAULT_WIDTH, toggle |-> TRUE,
                               _sidebar_restore_width |-> SIDEBAR_DEFAULT_WIDTH,
                               _sidebar_width_cap |-> SIDEBAR_WIDTH_MAX,
                               _suppress_sidebar_width_save |-> FALSE,
                               _pending_sidebar_width |-> 0,
                               _sidebar_width_save_source |-> FALSE,
                               sidebar_width |-> -1,
                               grid |-> "wallpapers", entry |-> << >>, reload_id |-> 0,
                               reloads |-> 0, flowbox |-> << >>, threads |-> {},
                               idle |-> << >>,
                               _gtk_preview_render_jobs |-> {}, renders |-> 0,
                               finalized |-> [n |-> 0, job_key |-> << >>, ok |-> FALSE],
                               \* get_thumb_size() of the settings as built
                               thumb_width |-> THUMB_SIZE_DEFAULT]
                 IN IF service = "grid"
                    THEN {[built EXCEPT !.grid = g] :
                            g \in {"wallpapers", "gtk", "icons", "cursors", "window"}}
                    ELSE IF service = "sidebar"
                    THEN {_ensure_resizable_layout([built EXCEPT !.sidebar_width = w]) :
                            w \in {-1, 20, 52, 60, 76, 77, 260, 347, 400}}
                    ELSE IF service # "window" THEN {built}
                    ELSE {[apply_top_mode([built EXCEPT !.mode_btn = start_mode,
                                                        !.top_mode = start_mode,
                                                        !.file_top_mode = start_mode],
                                          CASE start_mode = "builder" -> <<"b", "u", "i", "l", "d", "e", "r">>
                                            [] start_mode = "presets" -> <<"p", "r", "e", "s", "e", "t", "s">>
                                            [] OTHER -> <<"m", "i", "x", "e", "r">>,
                                          FALSE) EXCEPT !.last = "init"] :
                            start_mode \in {"mixer", "builder", "presets"}}

NextServices ==
    \/ \E e \in DOMAIN fetchFs :
          ListPresets(e) /\ UNCHANGED <<paletteVars, metaVars, workerVars, settingsVars, uiVars>>
    \/ \E t \in DOMAIN themeCss, v \in {<<"c", "a", "r", "d">>, <<"p", "a", "n", "e", "l">>},
           wh \in {<<320, 150>>, <<640, 420>>} :
          PreviewCachePath(t, v, wh)
          /\ UNCHANGED <<paletteVars, metaVars, workerVars, settingsVars, uiVars>>
    \/ \E css \in {[exists |-> FALSE, mtime_ns |-> 0, size |-> 0]}
                     \cup [exists : {TRUE}, mtime_ns : {1, 12}, size : {3, 23}] :
          TouchThemeCss(<<"N", "o", "r", "d">>, css)
          /\ UNCHANGED <<paletteVars, metaVars, workerVars, settingsVars, uiVars>>
    \/ \E helper \in {"saved", "failed", "failed_partial", "timeout", "not_started"},
           replace_fails \in BOOLEAN :
          RenderPreviewToCache(helper, replace_fails)
          /\ UNCHANGED <<paletteVars, metaVars, workerVars, settingsVars, uiVars>>
    \/ \E name \in {<<"A", "d", "w", "a", "i", "t", "a">>,
                     <<"N", "o", "r", "d", "i", "c", "-", "D", "a", "r", "k">>,
                     <<"P", "o", "p", "-", "L", "i", "g", "h", "t">>,
                     <<"M", "o", "n", "d", "a", "y">>,
                     <<"D", "a", "y", "-", "N", "o", "i", "r">>},
           css \in {CssContents[i] : i \in 1..Len(CssContents)}
                   \cup {[readable |-> TRUE, bg |-> c, fg |-> NoColor, accent |-> NoColor] :
                            c \in {<<117, 117, 117>>, <<118, 118, 118>>,
                                   <<5, 160, 25>>, <<121, 113, 149>>}}
                   \cup {[readable |-> TRUE, bg |-> NoColor, fg |-> <<20, 20, 20>>,
                           accent |-> NoColor]} :
          ClassifyTheme(name, css)
          /\ UNCHANGED <<paletteVars, metaVars, workerVars, settingsVars, uiVars>>
    \/ \E copy_fails \in BOOLEAN :
          InstallBarPreset(copy_fails)
          /\ UNCHANGED <<paletteVars, metaVars, workerVars, settingsVars, uiVars>>
    \/ TickClock /\ UNCHANGED <<paletteVars, metaVars, workerVars, settingsVars, uiVars>>
    \/ \E n \in {<<"N", "o", "r", "d">>, <<"a", "r", "c">>, <<"G", "h", "o", "s", "t">>} :
          \/ \E outcome \in {"ok", "failed", "raised"} :
                ApplyGtkTheme(n, outcome)
                /\ UNCHANGED <<paletteVars, metaVars, workerVars, settingsVars, uiVars>>
          \/ \E key \in {"icon-theme", "cursor-theme"}, outcome \in {"ok", "failed", "raised"} :
                ApplyInterfaceTheme(key, n, outcome)
                /\ UNCHANGED <<paletteVars, metaVars, workerVars, settingsVars, uiVars>>
          \/ \E outcome \in {"ok", "parse_raises", "open_raises", "write_raises",
                              "reconfigure_raises"} :
                ApplyWindowTheme(n, outcome)
                /\ UNCHANGED <<paletteVars, metaVars, workerVars, settingsVars, uiVars>>
    \/ \E path \in DOMAIN nameBefore, o \in SaveOutcomes \ {<<"replace_failed", 0>>} :
          \/ \E name \in {NumV("none", 0, << >>), NumV("str", 0, << >>),
                           NumV("str", 0, <<" ", "\t">>),
                           NumV("str", 0, <<"S", "u", "n">>),
                           NumV("str", 0, <<" ", "S", "u", "n", "\t", " ", "s", "e", "t", " ">>)} :
                set_display_name(path, name, o)
                /\ UNCHANGED <<paletteVars, metaVars, workerVars, serviceVars>>
          \/ clear_display_name(path, o)
             /\ UNCHANGED <<paletteVars, metaVars, workerVars, serviceVars>>
    \/ \E save_raises \in BOOLEAN :
          \/ \E mode \in {<< >>, <<"m", "i", "x", "e", "r">>, <<" ", "B", "u", "i", "l", "d", "e", "r", " ">>,
                           <<"p", "r", "e", "s", "e", "t", "s">>, <<"m", "i", "x">>} :
                ApplyTopMode(mode, save_raises)
                /\ UNCHANGED <<paletteVars, metaVars, workerVars, settingsVars, serviceVars>>
          \/ OnTopSettingsClicked(save_raises)
             /\ UNCHANGED <<paletteVars, metaVars, workerVars, settingsVars, serviceVars>>
    \/ \E row \in {"row_wallpapers", "row_panels", "row_menu", "none"} :
          SelectSidebarRow(row)
          /\ UNCHANGED <<paletteVars, metaVars, workerVars, settingsVars, serviceVars>>
    \/ \E id \in ui.sources :
          OnBarPreviewRefreshTimer(id)
          /\ UNCHANGED <<paletteVars, metaVars, workerVars, settingsVars, serviceVars>>
    \/ \E position \in {0, 30, 52, 53, 54, 55, 76, 77, 200, 346, 347, 348, 500} :
          SetPanedPosition(position)
          /\ UNCHANGED <<paletteVars, metaVars, workerVars, settingsVars, serviceVars>>
    \/ OnSidebarToggleToggled
       /\ UNCHANGED <<paletteVars, metaVars, workerVars, settingsVars, serviceVars>>
    \/ FlushSidebarWidthSave
       /\ UNCHANGED <<paletteVars, metaVars, workerVars, settingsVars, serviceVars>>
    \/ \E text \in Queries :
          ReloadGrid(text)
          /\ UNCHANGED <<paletteVars, metaVars, workerVars, settingsVars, serviceVars>>
    \/ \E t \in ui.threads :
          \/ ReloadThreadList(t)
             /\ UNCHANGED <<paletteVars, metaVars, workerVars, settingsVars, serviceVars>>
          \/ ReloadThreadStep(t)
             /\ UNCHANGED <<paletteVars, metaVars, workerVars, settingsVars, serviceVars>>
    \/ RunIdleCallback
       /\ UNCHANGED <<paletteVars, metaVars, workerVars, settingsVars, serviceVars>>
    \/ \E theme \in DOMAIN themeCss, variant \in {<<"c", "a", "r", "d">>, <<"p", "a", "n", "e", "l">>} :
          ScheduleGtkPreviewRender(theme, variant)
          /\ UNCHANGED <<paletteVars, metaVars, workerVars, settingsVars, serviceVars>>
    \/ \E t \in ui.threads, ok \in BOOLEAN :
          RenderWorker(t, ok)
          /\ UNCHANGED <<paletteVars, metaVars, workerVars, settingsVars, serviceVars>>
    \/ FinalizeRender
       /\ UNCHANGED <<paletteVars, metaVars, workerVars, settingsVars, serviceVars>>
    \/ \E o \in SaveOutcomes \ {<<"replace_failed", 0>>} :
          \/ \E size \in {100, 180, 200, 300, 320, 321, 400, 420, 500} :
                SetWallpaperThumbSize(size, o)
                /\ UNCHANGED <<paletteVars, metaVars, workerVars, serviceVars>>
          \/ \E delta \in {ZOOM_STEP, -ZOOM_STEP} :
                SetWallpaperThumbSize(ui.thumb_width + delta, o)
                /\ UNCHANGED <<paletteVars, metaVars, workerVars, serviceVars>>

----------------------------------------------------------------------------
\* WallpaperService.__init__, the image files being any of `start`
InitPalette(start) ==
    /\ files \in [Paths -> start]
    /\ _palette_cache = EmptyDict
    /\ _palette_disk_cache = EmptyDict
    /\ _palette_cache_dirty = FALSE
    /\ _palette_cache_dirty_count = 0
    /\ palette_cache_file = Absent
    /\ palette_cache_tmp = Absent
    /\ ret = NoRet
    /\ known = EmptyDict
    /\ restarts = 0
    /\ touches = 0
    /\ failures = 0

NextPalette ==
    \/ \E p \in Paths, v \in FileVersions \cup {Missing} :
           TouchFile(p, v) /\ UNCHANGED <<metaVars, workerVars, settingsVars, serviceVars, uiVars>>
    \/ \E p \in PathArgs, c \in Counts, o \in SaveOutcomes :
           ExtractPalette(p, c, o) /\ UNCHANGED <<metaVars, workerVars, settingsVars, serviceVars, uiVars>>
    \/ \E o \in SaveOutcomes : SavePaletteCacheToDisk(o) /\ UNCHANGED <<metaVars, workerVars, settingsVars, serviceVars, uiVars>>
    \/ RestartPalette /\ UNCHANGED <<metaVars, workerVars, settingsVars, serviceVars, uiVars>>
    \/ \E failed \in SUBSET {"palette_cache.json.tmp", "gtk_theme_metadata.json",
                             "gtk_theme_metadata.json.tmp"} : ClearCache(failed)

\* the palette cache of one application instance after another, one thread
InitSpecPalette ==
    /\ InitPalette(FileVersions \cup {Missing})
    /\ InitMeta({CssMissing}) /\ InitWorkers("done") /\ InitSettings({Absent})
    /\ InitServices({"none"})
SpecPalette == InitSpecPalette /\ [][NextPalette]_vars

NextMeta ==
    \/ \E p \in CssPaths, v \in CssVersions \cup {CssMissing} :
           TouchCss(p, v) /\ UNCHANGED <<paletteVars, workerVars, settingsVars, serviceVars, uiVars>>
    \/ \E t \in Themes : GetThemeMetadata(t) /\ UNCHANGED <<paletteVars, workerVars, settingsVars, serviceVars, uiVars>>
    \/ \E o \in SaveOutcomes : SaveMetadataCacheToDisk(o) /\ UNCHANGED <<paletteVars, workerVars, settingsVars, serviceVars, uiVars>>
    \/ RestartMeta /\ UNCHANGED <<paletteVars, workerVars, settingsVars, serviceVars, uiVars>>
    \/ \E failed \in SUBSET {"palette_cache.json.tmp", "gtk_theme_metadata.json",
                             "gtk_theme_metadata.json.tmp"} : ClearCache(failed)

\* the theme metadata cache of one application instance after another
InitSpecMeta ==
    /\ InitMeta({[exists |-> TRUE, mtime |-> 1, size |-> 1, css |-> 1], CssMissing})
    /\ InitPalette({Missing}) /\ InitWorkers("done") /\ InitSettings({Absent})
    /\ InitServices({"none"})
SpecMeta == InitSpecMeta /\ [][NextMeta]_vars

\* two reload workers saving the palette cache concurrently
InitSpecSave ==
    /\ InitWorkers("loop")
    /\ InitPalette({Missing}) /\ InitMeta({CssMissing}) /\ InitSettings({Absent})
    /\ InitServices({"none"})
SpecSave == InitSpecSave /\ [][NextSave]_vars

\* the settings store and the wallpaper settings
InitSpecSettings ==
    /\ InitSettings(StartFiles)
    /\ InitPalette({Missing}) /\ InitMeta({CssMissing}) /\ InitWorkers("done")
    /\ InitServices({"none"})
SpecSettings == InitSpecSettings /\ [][NextSettings]_vars

InitSpecServices ==
    /\ InitServices({"fetch", "preview", "render", "classify", "bar", "apply", "names", "window", "sidebar", "grid", "jobs", "thumb"})
    /\ InitPalette({Missing}) /\ InitMeta({CssMissing}) /\ InitWorkers("done")
    /\ InitSettings(IF service # "names" THEN {Absent}
                    ELSE {Complete(JDict([x \in {"wallpapers"} |-> JDict(section)])) :
                            section \in {EmptyDict,
                                         [x \in {"name_overrides"} |-> JOther],
                                         [x \in {"name_overrides"} |->
                                            JDict("a.png" :> NumV("str", 0, <<" ", "O", "l", "d", " ", " ", "1", " ">>)
                                                  @@ "b.png" :> NumV("int", 7, << >>))]}})

SpecServices == InitSpecServices /\ [][NextServices]_vars

----------------------------------------------------------------------------
\* Claims about the two caches

\* C1, as stated: for any path and count, once a palette has been computed
\* for a key (path, count, signature), every later extract_palette call with
\* that key returns the same palette from the in-memory or the on-disk tier
\* without reading the image again; and a palette that is taken from a tier
\* was computed for the signature the file has at the call.
C1_CachedForAnyCount ==
    /\ (ret.src # "none" /\ ret.wasKnown)
          => (ret.src \in {"memory", "disk"} /\ ret.palette = ret.knownPal)
    /\ ret.src \in {"memory", "disk"} => ret.originSig = ret.sig

\* C1, amended: the same for count >= 1.  (With count = 0 the cached palette
\* is the empty list, which the "if cached:" tests take for a miss.)
C1_CachedForPositiveCount ==
    /\ (ret.src # "none" /\ ret.wasKnown /\ ret.count >= 1)
          => (ret.src \in {"memory", "disk"} /\ ret.palette = ret.knownPal)
    /\ ret.src \in {"memory", "disk"} => ret.originSig = ret.sig

\* C1 witness: after a change of the file, a save and a restart, a call is
\* answered from the on-disk tier
C1_Witness ==
    /\ ret.src = "disk" /\ ret.wasKnown /\ ret.count >= 1
    /\ ret.palette # << >>
    /\ touches >= 1 /\ restarts >= 1

\* C2, as stated: get_theme_metadata returns the cached metadata only while
\* both the mtime and the size of the CSS file equal the values they had when
\* the entry was cached; after a change of either the CSS is parsed again and
\* the entry replaced.
C2_KeyedByMtimeAndSize ==
    /\ metaRet.src = "cache"
          => (metaRet.entryMtime = metaRet.mtime /\ metaRet.entrySize = metaRet.size)
    /\ (metaRet.src # "none" /\ metaRet.hadEntry
          /\ (metaRet.entryMtime # metaRet.mtime \/ metaRet.entrySize # metaRet.size))
          => (metaRet.src = "parsed"
                /\ _metadata_cache[metaRet.css].mtime = metaRet.mtime
                /\ _metadata_cache[metaRet.css].parsedSize = metaRet.size)

\* C2, amended: the entry is keyed by the mtime alone.  The cached metadata is
\* returned exactly while the file's mtime equals the cached one, whatever the
\* size; after a change of the mtime the CSS is parsed again and the entry
\* replaced.
C2_KeyedByMtime ==
    /\ metaRet.src = "cache"
          <=> (metaRet.src # "none" /\ metaRet.hadEntry
                 /\ metaRet.entryMtime = metaRet.mtime)
    /\ metaRet.src = "cache" => metaRet.meta = metaRet.entryMeta
    /\ metaRet.src = "parsed"
          => (/\ metaRet.css \in DOMAIN _metadata_cache
              /\ _metadata_cache[metaRet.css].mtime = metaRet.mtime
              /\ _metadata_cache[metaRet.css].meta = metaRet.meta)

\* C2 witness: a call finds an entry cached for another mtime and parses again
C2_Witness ==
    /\ metaRet.src = "parsed" /\ metaRet.hadEntry
    /\ metaRet.entryMtime # metaRet.mtime
    /\ metaRet.meta # metaRet.entryMeta

\* C5: whenever the dirty flag of a cache is clear, every entry of its
\* in-memory dictionary is present in its JSON file on disk (a save does
\* nothing while the flag is clear, a successful save clears the flag, a
\* failed one leaves it set).
C5_CleanMeansOnDisk ==
    LET onDisk(f, k) == IsComplete(f) /\ k \in DOMAIN PayloadOf(f).entries
    IN /\ ~_palette_cache_dirty
             => \A k \in DOMAIN _palette_disk_cache : onDisk(palette_cache_file, k)
       /\ ~_metadata_cache_dirty
             => \A k \in DOMAIN _metadata_cache : onDisk(metadata_cache_file, k)

\* C3: at every moment during and after the saves, also when a write fails
\* part-way and when the saves of two reload workers interleave on the one
\* ".json.tmp" file, the cache JSON file is absent or holds one complete
\* payload, never a partial one.
C3_NeverPartial ==
    /\ palette_cache_file.exists => IsComplete(palette_cache_file)
    /\ metadata_cache_file.exists => IsComplete(metadata_cache_file)

\* C4: SettingsStore.save is atomic: whenever a save has failed or was
\* interrupted, settings.json still holds the complete content of the last
\* successful save, so that a following load does not yield an empty or
\* truncated dictionary.
C4_FileHoldsLastSave ==
    /\ IsComplete(settings_file)
    /\ PayloadOf(settings_file) = lastSaved
    /\ load(settings_file) = lastSaved.d

\* C6: each mode getter returns a member of its allowed set; after a setter
\* called with an allowed value v its getter returns v, after a setter called
\* with any other value its getter returns the default ('custom', 'zoom-fill',
\* 'grid', 'name_asc'), and the other three settings are as before the call.
C6_SettersAndGetters ==
    LET now == <<get_source, get_fill_mode, get_view_mode, get_sort_mode>>
        allowed == << {"custom", "system"},
                      {"zoom-fill", "centered", "scaled", "tiled", "auto"},
                      {"grid", "list"},
                      {"name_asc", "name_desc", "newest", "oldest"} >>
        default == <<"custom", "zoom-fill", "grid", "name_asc">>
        setter == <<"set_source", "set_fill_mode", "set_view_mode", "set_sort_mode">>
    IN /\ \A i \in 1..4 : now[i] \in allowed[i]
       /\ \A i \in 1..4 :
            lastCall.op = setter[i] =>
                /\ now[i] = IF lastCall.arg \in allowed[i] THEN lastCall.arg
                            ELSE default[i]
                /\ \A j \in (1..4) \ {i} : now[j] = lastCall.before[j]

\* a setter called with a value outside its set, after one that changed the
\* setting: the getter is back at the default and the other settings stay
C6_Witness ==
    /\ lastCall.op = "set_fill_mode"
    /\ lastCall.arg = "invalid"
    /\ lastCall.before[2] = "centered"
    /\ get_fill_mode = "zoom-fill"

\* C7: after set_thumb_size(s), get_thumb_size returns s, converted to an
\* integer, clamped to [160, 320]; an s that cannot be converted counts as 220;
\* get_thumb_size is within [160, 320] whatever the settings file contained.
C7_ThumbSizeClamped ==
    /\ get_thumb_size \in 160..320
    /\ lastCall.op = "set_thumb_size" =>
         LET c == PyInt(lastCall.arg)
             n == IF c.ok THEN c.n ELSE 220
         IN get_thumb_size = IF n < 160 THEN 160 ELSE IF n > 320 THEN 320 ELSE n

C7_Witness ==
    /\ lastCall.op = "set_thumb_size"
    /\ lastCall.arg = NumV("int", 420, << >>)
    /\ get_thumb_size = 320

\* C8 (as stated): get_search_dirs always contains the colorized directory,
\* contains a configured custom folder only while the source is 'custom', and
\* holds only existing directories and no duplicates.
C8_SearchDirsAsStated ==
    LET sd == get_search_dirs
        cd == get_custom_dirs.dirs
        custom == {cd[i] : i \in 1..Len(cd)} \ {colorized_dir}
    IN /\ InList(colorized_dir, sd)
       /\ \A d \in custom : InList(d, sd) => get_source = "custom"
       /\ \A i \in 1..Len(sd) : Kind(sd[i]) = "dir"
       /\ \A i, j \in 1..Len(sd) : sd[i] = sd[j] => i = j

\* C8 (amended): get_search_dirs always contains the colorized directory; while
\* the source is 'custom' it contains every configured custom path that exists;
\* while the source is 'system' it holds nothing but the system directories
\* and the colorized directory; every entry exists (as a directory or as a
\* file) and no path occurs twice.
C8_SearchDirs ==
    LET sd == get_search_dirs
    IN /\ InList(colorized_dir, sd)
       /\ get_source = "custom" =>
            \A i \in 1..Len(get_custom_dirs.dirs) :
                Kind(get_custom_dirs.dirs[i]) # "missing"
                    => InList(get_custom_dirs.dirs[i], sd)
       /\ get_source = "system" =>
            \A i \in 1..Len(sd) :
                sd[i] \in {"/usr/share/backgrounds", "/usr/share/wallpapers"}
                    \/ sd[i] = colorized_dir
       /\ \A i \in 1..Len(sd) : Kind(sd[i]) \in {"dir", "file"}
       /\ \A i, j \in 1..Len(sd) : sd[i] = sd[j] => i = j

\* a custom folder was configured and the source was then switched to 'system'
C8_Witness ==
    /\ lastCall.op = "set_source"
    /\ lastCall.arg = "system"
    /\ get_custom_dirs.dirs = <<"/app/foo", colorized_dir>>
    /\ get_search_dirs = <<"/usr/share/backgrounds", colorized_dir>>

\* C9: when the stored custom_dirs list holds only corrupt entries ('xyz', a
\* float, None), get_custom_dirs does not raise and its result contains
\* library_dir.
C9_LibraryDirForCorruptEntries ==
    LET items == lastCall.arg
        corrupt(v) == v.k \in {"float", "none"} \/ (v.k = "str" /\ v.s = "xyz")
    IN (/\ lastCall.op = "store_custom_dirs"
        /\ items # << >>
        /\ \A i \in 1..Len(items) : corrupt(items[i]))
       => /\ ~get_custom_dirs.raised
          /\ InList(library_dir, get_custom_dirs.dirs)

\* C10: on a service built with default settings, after colorized_badge_color
\* is set to a valid #rrggbb colour, get_colorized_badge_css returns the rgba()
\* of that colour's channels, with the text '#111111' for #FF0000 and
\* '#ffffff' for #000000.
C10_BadgeCssUsesBadgeColor ==
    LET c == lastCall.arg
        css == get_colorized_badge_css
    IN (/\ lastCall.op = "store_badge_color"
        /\ get_state["colorized_tag_color"] = DEFAULT_BADGE
        /\ Len(c) = 7 /\ c[1] = "#" /\ \A i \in 2..7 : HexVal(c[i]) >= 0)
       => /\ css.r = 16 * HexVal(c[2]) + HexVal(c[3])
          /\ css.g = 16 * HexVal(c[4]) + HexVal(c[5])
          /\ css.b = 16 * HexVal(c[6]) + HexVal(c[7])
          /\ c = <<"#", "F", "F", "0", "0", "0", "0">> => css.text = "#111111"
          /\ c = <<"#", "0", "0", "0", "0", "0", "0">> => css.text = "#ffffff"

----------------------------------------------------------------------------
\* C11: list_presets returns the empty list for every engine string that is
\* empty, ".", "..", absolute, or contains "/" or "\", whatever preset files
\* the location it would resolve to holds.
C11_UnsafeEngineListsNothing ==
    LET e == fetchRet.engine
        unsafe == \/ e = << >>
                  \/ e \in {<<".">>, <<".", ".">>}
                  \/ e[1] = "/"
                  \/ \E i \in 1..Len(e) : e[i] \in {"/", "\\"}
    IN fetchRet.called /\ unsafe => fetchRet.presets = << >> /\ ~fetchRet.raised

\* "../out" was asked for, the directory it names holds c.conf, nothing is listed
C11_Witness ==
    /\ fetchRet.called
    /\ fetchRet.engine = <<".", ".", "/", "o", "u", "t">>
    /\ \E i \in 1..Len(fetchFs[fetchRet.engine].entries) :
          fetchFs[fetchRet.engine].entries[i] =
              [name |-> <<"c", ".", "c", "o", "n", "f">>, kind |-> "file"]
    /\ fetchRet.presets = << >>

\* C12: for a safe engine whose directory can be listed, list_presets returns
\* exactly the regular files whose lower-cased suffix is .json or .jsonc for
\* "fastfetch" and .conf for any other engine, one preset per file, named by
\* the file's stem, in the order of the lower-cased file names.
C12_PresetsAreTheMatchingFiles ==
    LET e == fetchRet.engine
        root == fetchFs[e]
        ps == fetchRet.presets
        safe == ~(\/ e = << >>
                  \/ e \in {<<".">>, <<".", ".">>}
                  \/ e[1] = "/"
                  \/ \E i \in 1..Len(e) : e[i] \in {"/", "\\"})
        exts == IF e = <<"f", "a", "s", "t", "f", "e", "t", "c", "h">>
                THEN {<<".", "j", "s", "o", "n">>, <<".", "j", "s", "o", "n", "c">>}
                ELSE {<<".", "c", "o", "n", "f">>}
        \* the file name is a non-empty stem followed by the extension
        ends(n, x) == Len(n) > Len(x) /\ Lower(SubSeq(n, Len(n) - Len(x) + 1, Len(n))) = x
        wanted == {i \in 1..Len(root.entries) :
                      /\ root.entries[i].kind = "file"
                      /\ \E x \in exts : ends(root.entries[i].name, x)}
    IN fetchRet.called /\ safe /\ root.isdir /\ ~root.raises =>
          /\ Len(ps) = Cardinality(wanted)
          /\ \A i \in wanted : \E k \in 1..Len(ps) : ps[k].path = <<e, root.entries[i].name>>
          /\ \A k \in 1..Len(ps) :
                /\ ps[k].engine = e
                /\ ps[k].path[1] = e
                /\ \E x \in exts : /\ ends(ps[k].path[2], x)
                                   /\ ps[k].name = SubSeq(ps[k].path[2], 1,
                                                          Len(ps[k].path[2]) - Len(x))
          /\ \A k \in 1..(Len(ps) - 1) :
                LexLeq(Lower(ps[k].path[2]), Lower(ps[k + 1].path[2]))

\* fastfetch's directory lists c.conf, B.json, a.JSONC: the presets are a, B
C12_Witness ==
    /\ fetchRet.called
    /\ fetchRet.engine = <<"f", "a", "s", "t", "f", "e", "t", "c", "h">>
    /\ Len(fetchFs[fetchRet.engine].entries) = 3
    /\ fetchFs[fetchRet.engine].entries[2].name = <<"B", ".", "j", "s", "o", "n">>
    /\ Len(fetchRet.presets) = 2
    /\ fetchRet.presets[1].name = <<"a">>
    /\ fetchRet.presets[2].name = <<"B">>

\* C13: list_presets never raises: it returns the empty list when the
\* engine's directory does not exist or listing it raises OSError, and an
\* OSError on one entry drops that entry and no other.
C13_ErrorsAreSwallowed ==
    LET e == fetchRet.engine
        root == fetchFs[e]
        ps == fetchRet.presets
        exts == IF e = <<"f", "a", "s", "t", "f", "e", "t", "c", "h">>
                THEN {<<".", "j", "s", "o", "n">>, <<".", "j", "s", "o", "n", "c">>}
                ELSE {<<".", "c", "o", "n", "f">>}
        ends(n, x) == Len(n) > Len(x) /\ Lower(SubSeq(n, Len(n) - Len(x) + 1, Len(n))) = x
        listed(i) == \E k \in 1..Len(ps) : ps[k].path = <<e, root.entries[i].name>>
    IN fetchRet.called =>
          /\ ~fetchRet.raised
          /\ ~root.isdir \/ root.raises => ps = << >>
          /\ e \in {<<"f", "a", "s", "t", "f", "e", "t", "c", "h">>, <<"n", "e", "o">>}
             /\ root.isdir /\ ~root.raises =>
                \A i \in 1..Len(root.entries) :
                    listed(i) <=> /\ root.entries[i].kind = "file"
                                  /\ \E x \in exts : ends(root.entries[i].name, x)

\* the stat of B.json raised between a.JSONC and c.conf: "neo" still lists c
C13_Witness ==
    /\ fetchRet.called
    /\ fetchRet.engine = <<"n", "e", "o">>
    /\ Len(fetchFs[fetchRet.engine].entries) = 3
    /\ fetchFs[fetchRet.engine].entries[2].kind = "oserror"
    /\ Len(fetchRet.presets) = 1
    /\ fetchRet.presets[1].name = <<"c">>

\* C14: preview_cache_path lies in cache/gtk_previews and is a function of
\* (theme name, variant, preview size, theme signature): equal inputs give
\* equal paths, two variants of one theme give different paths, and a
\* different mtime_ns or size of the theme's CSS file gives a different path.
C14_PreviewPathFollowsSignature ==
    \A i \in 1..Len(previewRet) : \A j \in 1..Len(previewRet) :
        LET a == previewRet[i]
            b == previewRet[j]
        IN /\ a.path.dir = <<"cache", "gtk_previews">>
           /\ \A k \in 1..Len(a.path.name) : a.path.name[k] # "/"
           /\ a.theme = b.theme /\ a.variant = b.variant /\ a.size = b.size /\ a.sig = b.sig
                  => a.path = b.path
           /\ a.theme = b.theme /\ a.variant # b.variant => a.path # b.path
           /\ a.theme = b.theme /\ a.variant = b.variant /\ a.size = b.size
              /\ a.css.exists /\ b.css.exists
              /\ <<a.css.mtime_ns, a.css.size>> # <<b.css.mtime_ns, b.css.size>>
                  => a.path # b.path

\* the card preview of Nord was looked up before and after its gtk.css went
\* from mtime_ns 1, size 23 to mtime_ns 12, size 3
C14_Witness ==
    /\ Len(previewRet) = 2
    /\ previewRet[1].theme = <<"N", "o", "r", "d">>
    /\ previewRet[2].theme = <<"N", "o", "r", "d">>
    /\ previewRet[1].variant = previewRet[2].variant
    /\ previewRet[1].size = previewRet[2].size
    /\ previewRet[1].css = [exists |-> TRUE, mtime_ns |-> 1, size |-> 23]
    /\ previewRet[2].css = [exists |-> TRUE, mtime_ns |-> 12, size |-> 3]
    /\ previewRet[1].path # previewRet[2].path

C16_PaletteAsStated ==
    ret.src = "computed" /\ ret.count >= 1 =>
        LET img == Images[ret.img]
            pal == ret.palette
            hits(c) == Cardinality({i \in 1..Len(img.data) :
                          /\ ~(img.n = 4 /\ img.data[i][4] < 20)
                          /\ \A k \in 1..3 : c[k] = img.data[i][k] - (img.data[i][k] % 24)})
        IN IF img.readable
           THEN /\ Len(pal) \in 1..ret.count
                /\ \A i \in 1..Len(pal) : \A k \in 1..3 : pal[i][k] % 24 = 0
                /\ \A i \in 1..Len(pal) : \A j \in (i + 1)..Len(pal) :
                      /\ hits(pal[i]) >= hits(pal[j])
                      /\ (pal[i][1] - pal[j][1]) * (pal[i][1] - pal[j][1])
                         + (pal[i][2] - pal[j][2]) * (pal[i][2] - pal[j][2])
                         + (pal[i][3] - pal[j][3]) * (pal[i][3] - pal[j][3]) >= 30 * 30
           ELSE pal = SubSeq(FALLBACK_PALETTE, 1, Min(ret.count, 5))

\* C16, amended: the same for a readable image with at least one sampled
\* pixel of alpha >= 20, the colours being buckets that hold such a pixel; a
\* readable image without one gives the fallback palette cut to count, like
\* an unreadable image.  (The images have fewer than 1800 pixels, so every
\* pixel is sampled.)
C16_PaletteOfVisiblePixels ==
    ret.src = "computed" /\ ret.count >= 1 =>
        LET img == Images[ret.img]
            pal == ret.palette
            visible == {i \in 1..Len(img.data) : ~(img.n = 4 /\ img.data[i][4] < 20)}
            hits(c) == Cardinality({i \in visible :
                          \A k \in 1..3 : c[k] = img.data[i][k] - (img.data[i][k] % 24)})
        IN IF img.readable /\ visible # {}
           THEN /\ Len(pal) \in 1..ret.count
                /\ \A i \in 1..Len(pal) : /\ \A k \in 1..3 : pal[i][k] % 24 = 0
                                          /\ hits(pal[i]) >= 1
                /\ \A i \in 1..Len(pal) : \A j \in (i + 1)..Len(pal) :
                      /\ hits(pal[i]) >= hits(pal[j])
                      /\ (pal[i][1] - pal[j][1]) * (pal[i][1] - pal[j][1])
                         + (pal[i][2] - pal[j][2]) * (pal[i][2] - pal[j][2])
                         + (pal[i][3] - pal[j][3]) * (pal[i][3] - pal[j][3]) >= 30 * 30
           ELSE pal = SubSeq(FALLBACK_PALETTE, 1, Min(ret.count, 5))

\* two colours were asked of the 2x2 image: the most frequent bucket, then
\* black, the bucket 24 away from the first being passed over
C16_Witness ==
    /\ ret.src = "computed"
    /\ ret.count = 2
    /\ ret.img = 1
    /\ ret.palette = << <<192, 24, 24>>, <<0, 0, 0>> >>

\* C17: a theme type that get_theme_metadata computes is "dark" for a name
\* with a dark token and no light token, "light" for a name with a light
\* token and no dark token, and otherwise "dark" exactly when the luminance
\* (0.2126 r + 0.7152 g + 0.0722 b) / 255 of the background colour found in
\* the CSS, or of the default #2f343f, is below 0.46.  (Both sides of the
\* comparison are multiplied by 10000 * 255.)
C17_TypeByNameThenLuminance ==
    classified.called =>
        LET n == Lower(classified.name)
            dark == \E t \in DARK_TOKENS : Contains(n, t)
            light == \E t \in LIGHT_TOKENS : Contains(n, t)
            css == classified.css
            bg == IF css.readable /\ css.bg # NoColor THEN css.bg ELSE <<47, 52, 63>>
            below == 2126 * bg[1] + 7152 * bg[2] + 722 * bg[3] < 1173000
        IN /\ classified.meta.colors.bg = bg
           /\ classified.meta.type = IF dark /\ ~light THEN "dark"
                                     ELSE IF light /\ ~dark THEN "light"
                                     ELSE IF below THEN "dark"
                                     ELSE "light"

\* C18: after any sequence of successful installs of a bar preset, two of
\* them within one clock second included, every content the config file held
\* just before an install is the content of some ".bak-<timestamp>" file next
\* to it, and after an install the config is the preset's.
C18_BackupsKeepEveryConfig ==
    /\ \A content \in barHeld :
          \E stamp \in DOMAIN barBackups : barBackups[stamp] = content
    /\ barInstalled => barTarget = "preset"

C20_UserThemesTakePrecedence ==
    (applyRet.called /\ applyRet.svc \in {"gtk", "window"}) =>
        LET l == list_themes(applyRet.svc, themeDirs)
            mark == IF applyRet.svc = "gtk" THEN "gtk-3.0/gtk.css" ELSE "openbox-3"
            holds(folder, n) ==
                /\ folder.exists
                /\ \E i \in 1..Len(folder.entries) :
                      /\ folder.entries[i].name = n
                      /\ folder.entries[i].kind = "dir"
                      /\ mark \in folder.entries[i].has
        IN /\ \A i, j \in 1..Len(l) : l[i].name = l[j].name => i = j
           /\ \A i, j \in 1..Len(l) : i < j => LexLeq(Lower(l[i].name), Lower(l[j].name))
           /\ \A n \in {<<"N", "o", "r", "d">>, <<"a", "r", "c">>} :
                (holds(themeDirs[1], n) /\ (holds(themeDirs[2], n) \/ holds(themeDirs[3], n)))
                => \E i \in 1..Len(l) : /\ l[i].name = n
                                        /\ l[i].path[1] \in {themeDirs[2].path, themeDirs[3].path}

\* C20 for the folders the service can list: the same, with the user folder's
\* precedence holding when that user folder can be listed (a folder whose
\* iterdir() raises is skipped).
C20_ListableUserThemesTakePrecedence ==
    (applyRet.called /\ applyRet.svc \in {"gtk", "window"}) =>
        LET l == list_themes(applyRet.svc, themeDirs)
            mark == IF applyRet.svc = "gtk" THEN "gtk-3.0/gtk.css" ELSE "openbox-3"
            holds(folder, n) ==
                /\ folder.exists
                /\ \E i \in 1..Len(folder.entries) :
                      /\ folder.entries[i].name = n
                      /\ folder.entries[i].kind = "dir"
                      /\ mark \in folder.entries[i].has
            listable(folder) == folder.exists /\ ~folder.raises
        IN /\ \A i, j \in 1..Len(l) : l[i].name = l[j].name => i = j
           /\ \A i, j \in 1..Len(l) : i < j => LexLeq(Lower(l[i].name), Lower(l[j].name))
           /\ \A n \in {<<"N", "o", "r", "d">>, <<"a", "r", "c">>} :
                /\ listable(themeDirs[1])
                /\ holds(themeDirs[1], n)
                /\ \/ listable(themeDirs[2]) /\ holds(themeDirs[2], n)
                   \/ listable(themeDirs[3]) /\ holds(themeDirs[3], n)
                => \E i \in 1..Len(l) : /\ l[i].name = n
                                        /\ l[i].path[1] \in {themeDirs[2].path, themeDirs[3].path}

\* C20 case: a listing of two themes, one of them held by the system folder
\* and by a user folder and listed with the user folder's path
C20_Witness ==
    /\ applyRet.called
    /\ applyRet.svc \in {"gtk", "window"}
    /\ Len(applyRet.listed) = 2
    /\ \E i \in 1..2 :
          /\ applyRet.listed[i].path[1] = themeDirs[2].path
          /\ \E k \in 1..Len(themeDirs[1].entries) :
                themeDirs[1].entries[k].name = applyRet.listed[i].name

C28_TimerFollowsPanelsPage ==
    /\ (ui.active_top_mode = "mixer" /\ ui.page = "panels") =>
          ui._bar_preview_refresh_source # 0
    /\ Cardinality(ui.sources) <= 1

\* C23: once on_main_paned_position_changed has handled a change of position
\* or a click on the toggle, the position of the pane lies between
\* SIDEBAR_COLLAPSED_WIDTH (52) and the smaller of _sidebar_width_cap and
\* SIDEBAR_WIDTH_MAX (347), it is 52 while the toggle is inactive, and every
\* ui.sidebar_width that the debounced save writes is above 54 and at most 347.
C23_SidebarWithinCap ==
    service = "sidebar" =>
        /\ ui.pos >= SIDEBAR_COLLAPSED_WIDTH
        /\ ui.pos <= Min(ui._sidebar_width_cap, SIDEBAR_WIDTH_MAX)
        /\ ~ui.toggle => ui.pos = SIDEBAR_COLLAPSED_WIDTH
        /\ ui._pending_sidebar_width # 0 =>
              /\ ui._pending_sidebar_width > SIDEBAR_COLLAPSED_WIDTH + SIDEBAR_SNAP_MARGIN
              /\ ui._pending_sidebar_width <= SIDEBAR_WIDTH_MAX
        /\ ui.last = "_flush_sidebar_width_save" =>
              /\ ui.sidebar_width > SIDEBAR_COLLAPSED_WIDTH + SIDEBAR_SNAP_MARGIN
              /\ ui.sidebar_width <= SIDEBAR_WIDTH_MAX

\* C23 case: the sidebar was dragged beyond the cap, the width it was held to
\* has been saved, and the toggle has collapsed it
C23_Witness ==
    /\ service = "sidebar"
    /\ ui.last = "on_sidebar_toggle_toggled"
    /\ ~ui.toggle
    /\ ui.pos = SIDEBAR_COLLAPSED_WIDTH
    /\ ui.sidebar_width = SIDEBAR_WIDTH_MAX
    /\ ui._sidebar_restore_width = SIDEBAR_WIDTH_MAX

\* C24: in the wallpaper, GTK-theme, icon-theme and cursor-theme grids a card
\* of a reload that is no longer the current one is never added: every card in
\* the grid comes from the current reload, no entry has two cards, and once
\* the threads and idle callbacks have run the grid holds the cards of the
\* latest reload, in order.
C24_StaleReloadsDiscarded ==
    (service = "grid" /\ ui.grid # "window") =>
        /\ \A i \in 1..Len(ui.flowbox) : ui.flowbox[i].reload_id = ui.reload_id
        /\ \A i, j \in 1..Len(ui.flowbox) :
              ui.flowbox[i].name = ui.flowbox[j].name => i = j
        /\ (ui.reloads > 0 /\ ui.threads = {} /\ ui.idle = << >>) =>
              [i \in 1..Len(ui.flowbox) |-> ui.flowbox[i].name]
                  = Filtered(Lower(Strip(ui.entry)))

\* C24 case: a callback of an earlier reload has just been run and dropped
\* while the grid already holds a card of the latest reload
C24_Witness ==
    /\ service = "grid"
    /\ ui.grid = "icons"
    /\ ui.last = "idle"
    /\ ui.reload_id = 2
    /\ Len(ui.flowbox) = 1
    /\ ui.flowbox[1].n = 2
    /\ \E t \in ui.threads : t.n = 1 /\ t.pc = "loop"

\* C25: the window-theme grid holds at most one card per theme, and only cards
\* of themes that match the most recent search query.
C25_WindowThemesShownOnce ==
    (service = "grid" /\ ui.grid = "window") =>
        /\ \A i, j \in 1..Len(ui.flowbox) :
              ui.flowbox[i].name = ui.flowbox[j].name => i = j
        /\ \A i \in 1..Len(ui.flowbox) :
              LET query == Lower(Strip(ui.entry))
              IN query = << >> \/ Contains(Lower(ui.flowbox[i].name), query)

\* C26: at most one render worker runs for a job key (variant and preview
\* file name), so no two workers write the same ".png.tmp" file at a time;
\* every worker running or waiting for its finalize callback has its key in
\* _gtk_preview_render_jobs, and the key is out of the set once the finalize
\* callback has run, whether the render succeeded or failed.
C26_RenderJobsDeduplicated ==
    service = "jobs" =>
        /\ \A t1, t2 \in ui.threads :
              (t1.job_key = t2.job_key \/ t1.tmp_path = t2.tmp_path) => t1 = t2
        /\ \A t \in ui.threads : t.job_key \in ui._gtk_preview_render_jobs
        /\ \A i \in 1..Len(ui.idle) :
              /\ ui.idle[i].job_key \in ui._gtk_preview_render_jobs
              /\ \A t \in ui.threads : t.job_key # ui.idle[i].job_key
        /\ ui.last = "finalize" => ui.finalized.job_key \notin ui._gtk_preview_render_jobs

\* C26 case: the preview whose render failed, and was finalized, is being
\* rendered again by a later worker
C26_Witness ==
    /\ service = "jobs"
    /\ ~ui.finalized.ok
    /\ ui.finalized.n = 1
    /\ \E t \in ui.threads :
          t.job_key = ui.finalized.job_key /\ t.n > 1 /\ t.pc = "render"

\* C27: the dirty flag is never clear while an entry of _palette_disk_cache is
\* missing from palette_cache.json: with reload workers inserting and saving
\* concurrently, whenever the flag is clear (so that the save made at shutdown
\* writes nothing) and the file is whole, the file holds every inserted entry.
C27_NoPaletteLost ==
    (~_palette_cache_dirty /\ IsComplete(palette_cache_file)) =>
        \A key \in DOMAIN _palette_disk_cache :
            key \in DOMAIN PayloadOf(palette_cache_file).entries

\* C29: after any sequence of _set_wallpaper_thumb_size calls (slider changes,
\* Ctrl+scroll steps of 20) the width in use, app.thumb_width, is
\* wallpaper_service.get_thumb_size(), the size that the next start restores.
C29_ThumbWidthIsPersistedSize ==
    service = "thumb" => ui.thumb_width = get_thumb_size

====
